---- MODULE Spec2Model ----
(***************************************************************************)
(* Chat message intake, context aggregation and analysis dispatch of      *)
(* backend/controllers/chatController.js, as a state machine.             *)
(*                                                                         *)
(* Text is a sequence of one-character strings, so that trim, extname,    *)
(* toLowerCase, includes and split are computed and not assumed.          *)
(* null / undefined / "" of an optional text are all the empty sequence:  *)
(* the handlers only ever test such values for truthiness.                *)
(***************************************************************************)
EXTENDS Integers, Sequences, FiniteSets, TLC

VARIABLES
    chats,      \* Chat collection: chat id i is chats[i] = [project, title, messages]
    messages,   \* Message collection: message id i is messages[i]
    projChats,  \* project.chats of every project: sequence of chat ids
    calls,      \* requests received by the analysis engine (axios.post), in order
    req,        \* per connection: the request being handled, its locals and its response
    nreq,       \* number of requests started so far
    scn         \* the environment: who calls, with what inputs (fixed in a behaviour)

vars == <<chats, messages, projChats, calls, req, nreq, scn>>
store == <<chats, messages, projChats>>

(***************************************************************************)
(* Bounds of the model.                                                    *)
(***************************************************************************)
MaxReqSeq == 3
MaxReqConc == 3
MaxReqAuth == 2
MaxReqFiles == 2
MaxReqHist == 2
MaxHist == 7
MaxReqEngine == 2

(***************************************************************************)
(* Text helpers.                                                           *)
(***************************************************************************)
Null == <<>>

IsSpace(c) == c = " "

RECURSIVE TrimStart(_)
TrimStart(s) ==
    IF s # <<>> /\ IsSpace(Head(s)) THEN TrimStart(Tail(s)) ELSE s

RECURSIVE TrimEnd(_)
TrimEnd(s) ==
    IF s # <<>> /\ IsSpace(s[Len(s)]) THEN TrimEnd(SubSeq(s, 1, Len(s) - 1)) ELSE s

\* String.prototype.trim
Trim(s) == TrimEnd(TrimStart(s))

LowerChar(c) ==
    CASE c = "A" -> "a" [] c = "B" -> "b" [] c = "C" -> "c" [] c = "D" -> "d"
      [] c = "E" -> "e" [] c = "F" -> "f" [] c = "G" -> "g" [] c = "H" -> "h"
      [] c = "I" -> "i" [] c = "J" -> "j" [] c = "K" -> "k" [] c = "L" -> "l"
      [] c = "M" -> "m" [] c = "N" -> "n" [] c = "O" -> "o" [] c = "P" -> "p"
      [] c = "Q" -> "q" [] c = "R" -> "r" [] c = "S" -> "s" [] c = "T" -> "t"
      [] c = "U" -> "u" [] c = "V" -> "v" [] c = "W" -> "w" [] c = "X" -> "x"
      [] c = "Y" -> "y" [] c = "Z" -> "z" [] OTHER -> c

\* String.prototype.toLowerCase
ToLowerCase(s) == [i \in 1..Len(s) |-> LowerChar(s[i])]

\* Largest index of character c in s, 0 when absent
LastIndexOf(s, c) ==
    LET I == {i \in 1..Len(s) : s[i] = c}
    IN  IF I = {} THEN 0 ELSE CHOOSE i \in I : \A j \in I : j <= i

RECURSIVE StripSlashes(_)
StripSlashes(s) ==
    IF s # <<>> /\ s[Len(s)] = "/" THEN StripSlashes(SubSeq(s, 1, Len(s) - 1)) ELSE s

\* path.extname (posix): from the last "." of the last path segment to its end;
\* empty when there is no ".", when the "." starts the segment, or for "..".
ExtName(p) ==
    LET q    == StripSlashes(p)
        k    == LastIndexOf(q, "/")
        part == SubSeq(q, k + 1, Len(q))
        d    == LastIndexOf(part, ".")
    IN  IF d = 0 \/ d = 1 \/ part = <<".", ".">> THEN <<>>
        ELSE SubSeq(part, d, Len(part))

\* String.prototype.includes for a single character
Includes(s, c) == \E i \in 1..Len(s) : s[i] = c

\* String.prototype.split for a single-character separator
RECURSIVE Split(_, _)
Split(s, c) ==
    LET I == {i \in 1..Len(s) : s[i] = c}
    IN  IF I = {} THEN <<s>>
        ELSE LET i == CHOOSE x \in I : \A y \in I : x <= y
             IN  <<SubSeq(s, 1, i - 1)>> \o Split(SubSeq(s, i + 1, Len(s)), c)

\* Array.prototype.map
Map(f(_), s) == [i \in 1..Len(s) |-> f(s[i])]

\* Array.prototype.slice(-n)
SliceLast(s, n) == SubSeq(s, IF Len(s) > n THEN Len(s) - n + 1 ELSE 1, Len(s))

Range(s) == {s[i] : i \in 1..Len(s)}

Min(a, b) == IF a < b THEN a ELSE b

(***************************************************************************)
(* JavaScript values that can stand for a dataset identifier.  v is what   *)
(* String(x) yields for the value.                                         *)
(***************************************************************************)
StrV(s) == [t |-> "string", v |-> s]
NumV(s) == [t |-> "number", v |-> s]
OidV(s) == [t |-> "objectid", v |-> s]
NullV == [t |-> "null", v |-> <<"n", "u", "l", "l">>]
ObjV == [t |-> "object", v |-> <<"[", "o", "b", "j", "e", "c", "t", " ", "O", "b", "j", "e", "c", "t", "]">>]

\* String(x)
String(x) == x.v

\* Boolean(x), for the values above
Truthy(x) ==
    CASE x.t = "string" -> x.v # <<>>
      [] x.t = "number" -> x.v # <<"0">>
      [] x.t = "null" -> FALSE
      [] OTHER -> TRUE

D1 == <<"d", "1">>
D2 == <<"d", "2">>
D3 == <<"d", "3">>

(***************************************************************************)
(* The collaborators the handlers read but never write: projects with     *)
(* their team (populated with its members) and their datasets.            *)
(***************************************************************************)
NoTeam == [organization |-> "", members |-> <<>>, exists |-> FALSE]

Teams ==
    [t1 |-> [organization |-> "o1", members |-> <<"u1", "u3">>, exists |-> TRUE],
     t2 |-> [organization |-> "o2", members |-> <<"u2">>, exists |-> TRUE]]

Projects ==
    [p1 |-> [team |-> Teams.t1,
             datasets |-> << [_id |-> OidV(D1), name |-> <<"s", "a", "l", "e", "s">>, url |-> <<"u", "r", "l", "1">>],
                             [_id |-> OidV(D2), name |-> <<"c", "o", "s", "t", "s">>, url |-> <<"u", "r", "l", "2">>] >>],
     p2 |-> [team |-> Teams.t2,
             datasets |-> << [_id |-> OidV(D3), name |-> <<"h", "r">>, url |-> <<"u", "r", "l", "3">>] >>],
     p3 |-> [team |-> NoTeam, datasets |-> <<>>]]

ProjectIds == DOMAIN Projects

\* Project.findById(projectId).populate(team ...): found, and the document
ProjectFindById(projectId) == projectId \in ProjectIds

(***************************************************************************)
(* parseSelectedDatasets                                                   *)
(***************************************************************************)
\* JSON texts a request can carry as selectedDatasets
JsonD1 == <<"[", "\"", "d", "1", "\"", "]">>
JsonD2D1 == <<"[", "\"", "d", "2", "\"", ",", "\"", "d", "1", "\"", "]">>
JsonD1D1 == <<"[", "\"", "d", "1", "\"", ",", "\"", "d", "1", "\"", "]">>
JsonD3D2 == <<"[", "\"", "d", "3", "\"", ",", "\"", "d", "2", "\"", "]">>
JsonEmpty == <<"[", "]">>
JsonNull == <<"n", "u", "l", "l">>
JsonSeven == <<"7">>
JsonObject == <<"{", "}">>
JsonStringD2 == <<"\"", "d", "2", "\"">>

\* JSON.parse on the texts above; every other text of the model is not JSON
\* (JSON.parse throws SyntaxError).
JsonParse(s) ==
    CASE s = JsonD1 -> [ok |-> TRUE, isArray |-> TRUE, items |-> <<StrV(D1)>>]
      [] s = JsonD2D1 -> [ok |-> TRUE, isArray |-> TRUE, items |-> <<StrV(D2), StrV(D1)>>]
      [] s = JsonD1D1 -> [ok |-> TRUE, isArray |-> TRUE, items |-> <<StrV(D1), StrV(D1)>>]
      [] s = JsonD3D2 -> [ok |-> TRUE, isArray |-> TRUE, items |-> <<StrV(D3), StrV(D2)>>]
      [] s = JsonEmpty -> [ok |-> TRUE, isArray |-> TRUE, items |-> <<>>]
      [] s = JsonNull -> [ok |-> TRUE, isArray |-> FALSE, items |-> <<NullV>>]
      [] s = JsonSeven -> [ok |-> TRUE, isArray |-> FALSE, items |-> <<NumV(<<"7">>)>>]
      [] s = JsonObject -> [ok |-> TRUE, isArray |-> FALSE, items |-> <<ObjV>>]
      [] s = JsonStringD2 -> [ok |-> TRUE, isArray |-> FALSE, items |-> <<StrV(D2)>>]
      [] OTHER -> [ok |-> FALSE, isArray |-> FALSE, items |-> <<>>]

TrimV(s) == StrV(Trim(s))

\* The request field selectedDatasets is absent/falsy ([k |-> "missing"]), an
\* array ([k |-> "array", items]), a string ([k |-> "string", s]) or another
\* value ([k |-> "other", items = <<value>>]).
parseSelectedDatasets(input) ==
    IF input.k = "missing" \/ (input.k = "string" /\ input.s = <<>>) THEN <<>>
    ELSE IF input.k = "array" THEN input.items
    ELSE IF input.k = "string" THEN
        LET parsed == JsonParse(input.s)
        IN  IF parsed.ok THEN parsed.items
            ELSE IF Includes(input.s, ",")
                 THEN SelectSeq(Map(TrimV, Split(input.s, ",")), Truthy)
                 ELSE <<TrimV(input.s)>>
    ELSE input.items

Missing == [k |-> "missing", s |-> <<>>, items |-> <<>>]
Text(s) == [k |-> "string", s |-> s, items |-> <<>>]
Items(xs) == [k |-> "array", s |-> <<>>, items |-> xs]

(***************************************************************************)
(* chatHandler, step 1: uploaded files                                     *)
(***************************************************************************)
TextCsv == "text/csv"
DotCsv == <<".", "c", "s", "v">>

\* Buffer.toString("base64") and Buffer.from(.., "base64") on the payloads of the model
ToBase64(buffer) ==
    CASE buffer = <<"a">> -> <<"Y", "Q", "=", "=">>
      [] buffer = <<"b">> -> <<"Y", "g", "=", "=">>
      [] OTHER -> <<>>

FromBase64(b64) ==
    CASE b64 = <<"Y", "Q", "=", "=">> -> <<"a">>
      [] b64 = <<"Y", "g", "=", "=">> -> <<"b">>
      [] OTHER -> <<>>

\* Variant: the extension is compared as written, without toLowerCase
IsCsvUploadCaseSensitive(f) ==
    ExtName(f.originalname) = DotCsv \/ f.mimetype = TextCsv

\* the filter callback: ext === ".csv" || f.mimetype === "text/csv"
IsCsvUpload(f) ==
    ToLowerCase(ExtName(f.originalname)) = DotCsv \/ f.mimetype = TextCsv

\* the map callback; bufferBase64 is Null for an absent or empty buffer
ToTempFile(f) ==
    [originalname |-> f.originalname,
     mimetype |-> f.mimetype,
     size |-> f.size,
     bufferBase64 |-> ToBase64(f.buffer)]

\* An upload as multer hands it over; buffer is <<>> when absent
Upload(name, mime, buffer) ==
    [originalname |-> name, mimetype |-> mime, size |-> Len(buffer), buffer |-> buffer]

ProcessFiles(incomingFiles) == Map(ToTempFile, SelectSeq(incomingFiles, IsCsvUpload))

(***************************************************************************)
(* Access control, the same block in all five handlers                     *)
(***************************************************************************)
SuperAdmin == "superadmin"

IsMember(team, userId) == \E i \in 1..Len(team.members) : team.members[i] = userId

\* Variant: the membership test is left out
CheckAccessOrgOnly(team, user) ==
    IF user.role # SuperAdmin /\ team.organization # user.organization
    THEN "Not in this organization."
    ELSE "ok"

\* Variant: the membership test comes before the organization test
CheckAccessMemberFirst(team, user) ==
    IF user.role # SuperAdmin
    THEN IF ~IsMember(team, user.userId) THEN "Not a member of this team."
         ELSE IF team.organization # user.organization THEN "Not in this organization."
         ELSE "ok"
    ELSE "ok"

\* "ok", or the reason of the 403
CheckAccess(team, user) ==
    IF user.role # SuperAdmin
    THEN IF team.organization # user.organization THEN "Not in this organization."
         ELSE IF ~IsMember(team, user.userId) THEN "Not a member of this team."
         ELSE "ok"
    ELSE "ok"

(***************************************************************************)
(* aiReplyHandler, steps 4 and 5: the analysis context                     *)
(***************************************************************************)
HistoryWindow == 5

\* allDatasetIds: a JavaScript Set of strings, kept in insertion order
RECURSIVE AddAll(_, _)
AddAll(set, ids) ==
    IF ids = <<>> THEN set
    ELSE AddAll(IF String(Head(ids)) \in Range(set) THEN set ELSE Append(set, String(Head(ids))),
                Tail(ids))

\* Variant: only the latest message's selection counts
AllDatasetIdsLatest(allMessages) ==
    IF allMessages = <<>> THEN <<>>
    ELSE AddAll(<<>>, allMessages[Len(allMessages)].selectedDatasets)

\* Variant: only the messages of the history window are scanned
RECURSIVE AllDatasetIdsRecent(_)
AllDatasetIdsRecent(allMessages) ==
    IF Len(allMessages) > HistoryWindow THEN AllDatasetIdsRecent(Tail(allMessages))
    ELSE IF allMessages = <<>> THEN <<>>
    ELSE AddAll(AllDatasetIdsRecent(SubSeq(allMessages, 1, Len(allMessages) - 1)),
                allMessages[Len(allMessages)].selectedDatasets)

RECURSIVE AllDatasetIds(_)
AllDatasetIds(allMessages) ==
    IF allMessages = <<>> THEN <<>>
    ELSE AddAll(AllDatasetIds(SubSeq(allMessages, 1, Len(allMessages) - 1)),
                allMessages[Len(allMessages)].selectedDatasets)

SetHas(set, x) == x \in Range(set)

UserSender == "user"
BotSender == "chatbot"

ToTurn(msg) ==
    [role |-> IF msg.sender = UserSender THEN "user" ELSE "assistant",
     content |-> msg.content]

\* Variant: slice(0, 5), the first turns instead of the last
RecentHistoryFirst(allMessages) ==
    Map(ToTurn, SubSeq(allMessages, 1, Min(Len(allMessages), HistoryWindow)))

\* recentHistory
RecentHistory(allMessages) == Map(ToTurn, SliceLast(allMessages, HistoryWindow))

HasBuffer(f) == f.bufferBase64 # Null

\* allUploadedFiles: every file with content of every user message
RECURSIVE AllUploadedFiles(_)
AllUploadedFiles(allMessages) ==
    IF allMessages = <<>> THEN <<>>
    ELSE LET msg == Head(allMessages)
         IN  (IF msg.sender = UserSender THEN SelectSeq(msg.tempFiles, HasBuffer) ELSE <<>>)
             \o AllUploadedFiles(Tail(allMessages))

CurrentUpload == <<"C", "u", "r", "r", "e", "n", "t", " ", "U", "p", "l", "o", "a", "d">>
DatasetCsv == <<"d", "a", "t", "a", "s", "e", "t", ".", "c", "s", "v">>
Digits == <<"1", "2", "3", "4", "5", "6", "7", "8", "9">>
UploadLabel(index) == <<"U", "p", "l", "o", "a", "d", " ", Digits[index]>>

\* Variant: the identifiers are looked up among the datasets of every project
ResolveDatasetsAnyProject(datasets, allDatasetIds) ==
    LET Selected(d) == SetHas(allDatasetIds, String(d._id))
    IN  SelectSeq(Projects.p1.datasets \o Projects.p2.datasets \o Projects.p3.datasets, Selected)

\* project.datasets.filter(d => allDatasetIds.has(String(d._id)))
ResolveDatasets(datasets, allDatasetIds) ==
    LET Selected(d) == SetHas(allDatasetIds, String(d._id))
    IN  SelectSeq(datasets, Selected)

ToRef(d) == [name |-> d.name, url |-> d.url]

\* Variant: a descriptor for the first uploaded file only
DatasetsContextFirstFile(datasets, allDatasetIds, allUploadedFiles) ==
    Map(ToRef, ResolveDatasets(datasets, allDatasetIds))
    \o [i \in 1..Min(1, Len(allUploadedFiles)) |->
          [name |-> IF allUploadedFiles[i].originalname # <<>>
                    THEN allUploadedFiles[i].originalname ELSE UploadLabel(i),
           url |-> CurrentUpload]]

\* datasetsContext after the uploaded files were pushed
DatasetsContext(datasets, allDatasetIds, allUploadedFiles) ==
    Map(ToRef, ResolveDatasets(datasets, allDatasetIds))
    \o [i \in 1..Len(allUploadedFiles) |->
          [name |-> IF allUploadedFiles[i].originalname # <<>>
                    THEN allUploadedFiles[i].originalname ELSE UploadLabel(i),
           url |-> CurrentUpload]]

ToFilePart(file) ==
    [filename |-> IF file.originalname # <<>> THEN file.originalname ELSE DatasetCsv,
     contentType |-> TextCsv,
     data |-> FromBase64(file.bufferBase64)]

\* The multipart form posted to the analysis engine.  context is the JSON text
\* of analysisContext, kept as the value it parses to.
BuildForm(project, allMessages, content) ==
    LET allUploadedFiles == AllUploadedFiles(allMessages)
    IN  [user_text |-> Trim(content),
         context |-> [messages |-> RecentHistory(allMessages),
                      datasets |-> DatasetsContext(project.datasets,
                                                   AllDatasetIds(allMessages),
                                                   allUploadedFiles)],
         files |-> Map(ToFilePart, allUploadedFiles)]

NoForm == [user_text |-> <<>>, context |-> [messages |-> <<>>, datasets |-> <<>>], files |-> <<>>]

(***************************************************************************)
(* The analysis engine answers with one of two results, or fails.          *)
(***************************************************************************)
NoAnalysis == [insights |-> <<>>, error |-> <<>>]
AnalysisOk == [insights |-> <<"u", "p">>, error |-> <<>>]
AnalysisErr == [insights |-> <<>>, error |-> <<"n", "o">>]

\* JSON.stringify(analysis)
JsonStringify(analysis) ==
    CASE analysis = AnalysisOk ->
           <<"{", "\"", "i", "n", "s", "i", "g", "h", "t", "s", "\"", ":", "\"", "u", "p", "\"", "}">>
      [] analysis = AnalysisErr ->
           <<"{", "\"", "e", "r", "r", "o", "r", "\"", ":", "\"", "n", "o", "\"", "}">>
      [] OTHER -> <<"{", "}">>

(***************************************************************************)
(* aiReplyHandler, step 6: the address of the analysis engine.  new URL    *)
(* reads the configured base as the URL standard says; it is modelled on   *)
(* the texts made of UrlChars (letters, digits, "+", "-", ".", ":" and     *)
(* "/") in which no label of a host starts with "xn--".  Such a text has   *)
(* no credentials, query or fragment, and nothing in it is                 *)
(* percent-encoded.  The handler reads the pathname of the URL, assigns    *)
(* it, and turns the URL into a text; the model keeps what these need.     *)
(***************************************************************************)
HttpScheme == <<"h", "t", "t", "p", ":", "/", "/">>
AnalyzeRoute == <<"/", "a", "n", "a", "l", "y", "z", "e">>
DefaultFastApiUrl ==
    <<"h", "t", "t", "p", ":", "/", "/", "l", "o", "c", "a", "l", "h", "o", "s", "t", ":", "8", "0", "0", "0">>

\* String.prototype.startsWith and endsWith
StartsWith(s, pre) == Len(s) >= Len(pre) /\ SubSeq(s, 1, Len(pre)) = pre
EndsWith(s, suf) == Len(s) >= Len(suf) /\ SubSeq(s, Len(s) - Len(suf) + 1, Len(s)) = suf

\* Smallest index of character c in s, 0 when absent
IndexOf(s, c) ==
    LET I == {i \in 1..Len(s) : s[i] = c}
    IN  IF I = {} THEN 0 ELSE CHOOSE i \in I : \A j \in I : i <= j

AlphaChars ==
    {"a", "b", "c", "d", "e", "f", "g", "h", "i", "j", "k", "l", "m", "n", "o", "p", "q",
     "r", "s", "t", "u", "v", "w", "x", "y", "z",
     "A", "B", "C", "D", "E", "F", "G", "H", "I", "J", "K", "L", "M", "N", "O", "P", "Q",
     "R", "S", "T", "U", "V", "W", "X", "Y", "Z"}
DigitChars == {"0", "1", "2", "3", "4", "5", "6", "7", "8", "9"}
SchemeChars == AlphaChars \cup DigitChars \cup {"+", "-", "."}
UrlChars == SchemeChars \cup {":", "/"}

\* The schemes whose URLs have a host and a path that starts with "/"
FileScheme == <<"f", "i", "l", "e">>
SpecialSchemes ==
    { <<"h", "t", "t", "p">>, <<"h", "t", "t", "p", "s">>, <<"w", "s">>, <<"w", "s", "s">>,
      <<"f", "t", "p">>, FileScheme }

\* The port a URL of the scheme has when none is written, <<>> when it has none
DefaultPort(scheme) ==
    CASE scheme \in {<<"h", "t", "t", "p">>, <<"w", "s">>} -> <<"8", "0">>
      [] scheme \in {<<"h", "t", "t", "p", "s">>, <<"w", "s", "s">>} -> <<"4", "4", "3">>
      [] scheme = <<"f", "t", "p">> -> <<"2", "1">>
      [] OTHER -> <<>>

\* The place of the ":" that ends the scheme of raw, 0 when raw has no scheme:
\* a letter, then letters, digits, "+", "-" and "." up to the first ":"
SchemeEnd(raw) ==
    LET k == IndexOf(raw, ":")
    IN  IF k > 1 /\ raw[1] \in AlphaChars /\ (\A i \in 2..(k - 1) : raw[i] \in SchemeChars)
        THEN k ELSE 0

RECURSIVE StripLeadingSlashes(_)
StripLeadingSlashes(s) ==
    IF s # <<>> /\ s[1] = "/" THEN StripLeadingSlashes(Tail(s)) ELSE s

\* The pieces of s between the occurrences of c
RECURSIVE SplitOn(_, _)
SplitOn(s, c) ==
    IF IndexOf(s, c) = 0 THEN <<s>>
    ELSE CHOOSE parts \in
           { <<SubSeq(s, 1, k - 1)>> \o SplitOn(SubSeq(s, k + 1, Len(s)), c) :
               k \in {IndexOf(s, c)} } : TRUE

(***************************************************************************)
(* Hosts.  The host of a URL of a special scheme is a domain in lower      *)
(* case, or an IPv4 address when its last label is a number: the labels    *)
(* are then numbers in radix 10, 8 (leading "0") or 16 (leading "0x"), at  *)
(* most four, the last one filling the bytes the others leave.             *)
(***************************************************************************)
HexDigits == <<"0", "1", "2", "3", "4", "5", "6", "7", "8", "9", "a", "b", "c", "d", "e", "f">>
DigitValue(c) == IndexOf(HexDigits, LowerChar(c)) - 1

\* The number written by the first i digits in radix R, as <<hi, lo>> with
\* value hi * 65536 + lo; hi stops at 65536, above every limit of an address
RECURSIVE NumberValue(_, _, _)
NumberValue(digits, R, i) ==
    IF i = 0 THEN <<0, 0>>
    ELSE CHOOSE v \in
           { << IF prev[1] * R + ((prev[2] * R + d) \div 65536) > 65536 THEN 65536
                ELSE prev[1] * R + ((prev[2] * R + d) \div 65536),
                (prev[2] * R + d) % 65536 >> :
               prev \in {NumberValue(digits, R, i - 1)}, d \in {DigitValue(digits[i])} } : TRUE

NotANumber == [ok |-> FALSE, n |-> <<0, 0>>]

\* One label of an IPv4 address
Ipv4Number(part) ==
    LET hex == Len(part) >= 2 /\ part[1] = "0" /\ part[2] \in {"x", "X"}
        oct == ~hex /\ Len(part) >= 2 /\ part[1] = "0"
        R == IF hex THEN 16 ELSE IF oct THEN 8 ELSE 10
        digits == IF hex THEN SubSeq(part, 3, Len(part)) ELSE IF oct THEN Tail(part) ELSE part
    IN  IF part = <<>> \/ (\E i \in 1..Len(digits) : DigitValue(digits[i]) \notin 0..(R - 1))
        THEN NotANumber
        ELSE [ok |-> TRUE, n |-> NumberValue(digits, R, Len(digits))]

\* The labels of host, without the empty label a final "." leaves
NumberParts(host) ==
    CHOOSE p \in
      { IF Len(parts) > 1 /\ parts[Len(parts)] = <<>> THEN SubSeq(parts, 1, Len(parts) - 1)
        ELSE parts : parts \in {SplitOn(host, ".")} } : TRUE

EndsInNumber(host) ==
    \E parts \in {NumberParts(host)} : \E last \in {parts[Len(parts)]} :
        \/ last # <<>> /\ \A i \in 1..Len(last) : last[i] \in DigitChars
        \/ Ipv4Number(last).ok

\* Number.prototype.toString for 0..255
RECURSIVE IntToText(_)
IntToText(n) ==
    IF n < 10 THEN <<HexDigits[n + 1]>> ELSE IntToText(n \div 10) \o <<HexDigits[(n % 10) + 1]>>

NoHost == [ok |-> FALSE, text |-> <<>>]

\* The IPv4 address host writes, in dotted decimal
Ipv4(host) ==
    CHOOSE h \in
      { IF \/ Len(nums) > 4
           \/ \E i \in 1..Len(nums) : ~nums[i].ok
           \/ \E i \in 1..(Len(nums) - 1) : nums[i].n[1] > 0 \/ nums[i].n[2] > 255
           \/ nums[Len(nums)].n[1] >= (CASE Len(nums) = 1 -> 65536 [] Len(nums) = 2 -> 256
                                         [] OTHER -> 1)
           \/ Len(nums) = 4 /\ nums[4].n[2] > 255
        THEN NoHost
        ELSE LET last == nums[Len(nums)].n
                 bytes == <<last[1] \div 256, last[1] % 256, last[2] \div 256, last[2] % 256>>
                 byte(i) == IF i < Len(nums) THEN nums[i].n[2] ELSE bytes[i]
             IN  [ok |-> TRUE,
                  text |-> IntToText(byte(1)) \o <<".">> \o IntToText(byte(2)) \o <<".">>
                             \o IntToText(byte(3)) \o <<".">> \o IntToText(byte(4))] :
          nums \in {[i \in 1..Len(parts) |-> Ipv4Number(parts[i])] : parts \in {NumberParts(host)}} } :
        TRUE

\* The host of a URL of a special scheme
SpecialHost(buffer) ==
    IF buffer = <<>> \/ IndexOf(buffer, ":") > 0 THEN NoHost
    ELSE CHOOSE h \in
           { IF EndsInNumber(lower) THEN Ipv4(lower) ELSE [ok |-> TRUE, text |-> lower] :
               lower \in {ToLowerCase(buffer)} } : TRUE

\* The host of a URL of any other scheme, kept as written
OpaqueHost(buffer) ==
    IF IndexOf(buffer, ":") > 0 THEN NoHost ELSE [ok |-> TRUE, text |-> buffer]

RECURSIVE StripLeadingZeros(_)
StripLeadingZeros(s) ==
    IF Len(s) > 1 /\ s[1] = "0" THEN StripLeadingZeros(Tail(s)) ELSE s

NoPort == [ok |-> FALSE, text |-> <<>>]

\* The port digits write: none when empty or the default port of the scheme
PortOf(scheme, digits) ==
    IF \E i \in 1..Len(digits) : digits[i] \notin DigitChars THEN NoPort
    ELSE IF digits = <<>> THEN [ok |-> TRUE, text |-> <<>>]
    ELSE CHOOSE p \in
           { IF Len(n) > 5 \/ (Len(n) = 5 /\ NumberValue(n, 10, 5)[1] > 0) THEN NoPort
             ELSE [ok |-> TRUE, text |-> IF n = DefaultPort(scheme) THEN <<>> ELSE n] :
               n \in {StripLeadingZeros(digits)} } : TRUE

\* Is auth, the text between the slashes and the path, a host or host:port
\* the scheme accepts: the host is there (it may be empty for a scheme that
\* is not special, without port), the port is digits and at most 65535
HostOk(scheme, auth) ==
    LET c == IndexOf(auth, ":")
        buffer == IF c = 0 THEN auth ELSE SubSeq(auth, 1, c - 1)
    IN  /\ buffer = <<>> => c = 0 /\ scheme \notin SpecialSchemes
        /\ buffer # <<>> =>
             IF scheme \in SpecialSchemes THEN SpecialHost(buffer).ok ELSE OpaqueHost(buffer).ok
        /\ c > 0 => PortOf(scheme, SubSeq(auth, c + 1, Len(auth))).ok

(***************************************************************************)
(* Paths.  A path is a list of segments; "." and ".." are resolved while   *)
(* it is read, unless the parser of the platform takes the path as         *)
(* written (PlainPath).                                                    *)
(***************************************************************************)
\* A Windows drive letter, as in file:///c:/
IsDriveLetter(seg) == Len(seg) = 2 /\ seg[1] \in AlphaChars /\ seg[2] = ":"

\* A text that starts with a drive letter
StartsWithDriveLetter(text) == Len(text) >= 2 /\ text[1] \in AlphaChars /\ text[2] = ":"

\* ".." removes the last segment, but not the lone segment of a file URL that
\* starts with a drive letter
Shorten(scheme, path) ==
    IF path = <<>> \/ (scheme = FileScheme /\ Len(path) = 1 /\ StartsWithDriveLetter(path[1]))
    THEN path
    ELSE SubSeq(path, 1, Len(path) - 1)

\* The place of the first "/." of text, 0 when there is none
IndexOfSlashDot(text) ==
    LET I == {i \in 1..(Len(text) - 1) : text[i] = "/" /\ text[i + 1] = "."}
    IN  IF I = {} THEN 0 ELSE CHOOSE i \in I : \A j \in I : i <= j

\* Is the path that text writes taken as it is written: it is when text has
\* no ".", and also when it does not start with "." and its first "/." is
\* followed by something other than ".", "/" and the end, whatever comes
\* later; a file path that starts with a drive letter is always read
PlainPath(scheme, text) ==
    /\ ~(/\ scheme = FileScheme
         /\ StartsWithDriveLetter(text)
         /\ (Len(text) = 2 \/ text[3] = "/"))
    /\ \/ IndexOf(text, ".") = 0
       \/ /\ text[1] # "."
          /\ \E k \in {IndexOfSlashDot(text)} :
                k = 0 \/ (k + 2 <= Len(text) /\ text[k + 2] \notin {".", "/"})

\* The path after the first i of the segments segs; a final ".." leaves a
\* final "/" unless it found the path of a URL that is not special empty
RECURSIVE PathSegments(_, _, _)
PathSegments(scheme, segs, i) ==
    IF i = 0 THEN <<>>
    ELSE CHOOSE p \in
           { IF segs[i] = <<".", ".">>
             THEN Shorten(scheme, path)
                    \o (IF i = Len(segs) /\ (scheme \in SpecialSchemes \/ path # <<>>)
                        THEN << <<>> >> ELSE <<>>)
             ELSE IF segs[i] = <<".">>
             THEN path \o (IF i = Len(segs) THEN << <<>> >> ELSE <<>>)
             ELSE Append(path, segs[i]) :
               path \in {PathSegments(scheme, segs, i - 1)} } : TRUE

RECURSIVE PathText(_)
PathText(path) ==
    IF path = <<>> THEN <<>> ELSE <<"/">> \o Head(path) \o PathText(Tail(path))

\* The pathname of the URL whose path is written by text
Pathname(scheme, text) ==
    IF PlainPath(scheme, text) THEN <<"/">> \o text
    ELSE CHOOSE p \in
           {PathText(PathSegments(scheme, segs, Len(segs))) : segs \in {SplitOn(text, "/")}} : TRUE

\* The pathname text writes where a path starts: one leading "/" is skipped
PathnameAt(scheme, text) ==
    Pathname(scheme, IF text # <<>> /\ text[1] = "/" THEN Tail(text) ELSE text)

(***************************************************************************)
(* URLs: the scheme, the host (hasHost: the URL has one, possibly empty),  *)
(* the port (<<>>: none), the pathname, and whether the path is opaque.    *)
(***************************************************************************)
\* new URL(raw) throws TypeError
InvalidUrl ==
    [ok |-> FALSE, scheme |-> <<>>, hasHost |-> FALSE, host |-> <<>>, port |-> <<>>,
     pathname |-> <<>>, opaque |-> FALSE]

\* A URL with a host: auth is host or host:port, then the path
AuthorityUrl(scheme, auth) ==
    CHOOSE u \in
      { IF ~HostOk(scheme, hostport) THEN InvalidUrl
        ELSE LET c == IndexOf(hostport, ":")
                 buffer == IF c = 0 THEN hostport ELSE SubSeq(hostport, 1, c - 1)
             IN  [ok |-> TRUE, scheme |-> scheme, hasHost |-> TRUE,
                  host |-> IF scheme \in SpecialSchemes THEN SpecialHost(buffer).text
                           ELSE buffer,
                  port |-> IF c = 0 THEN <<>>
                           ELSE PortOf(scheme, SubSeq(hostport, c + 1, Len(hostport))).text,
                  pathname |-> IF j > 0 THEN Pathname(scheme, SubSeq(auth, j + 1, Len(auth)))
                               ELSE IF scheme \in SpecialSchemes THEN <<"/">>
                               ELSE <<>>,
                  opaque |-> FALSE] :
          j \in {IndexOf(auth, "/")},
          hostport \in {IF IndexOf(auth, "/") = 0 THEN auth
                        ELSE SubSeq(auth, 1, IndexOf(auth, "/") - 1)} } : TRUE

\* A URL of a special scheme other than file: the slashes after "scheme:"
\* are skipped, however many there are
SpecialUrl(scheme, rest) == AuthorityUrl(scheme, StripLeadingSlashes(rest))

Localhost == <<"l", "o", "c", "a", "l", "h", "o", "s", "t">>

\* A file URL: its host is empty unless one is written after "//"; a drive
\* letter in the place of the host starts the path
FileUrl(rest) ==
    CHOOSE u \in
      { IF ~StartsWith(rest, <<"/", "/">>) \/ buffer = <<>> \/ IsDriveLetter(buffer)
        THEN [ok |-> TRUE, scheme |-> FileScheme, hasHost |-> TRUE, host |-> <<>>, port |-> <<>>,
              pathname |-> IF ~StartsWith(rest, <<"/", "/">>) THEN PathnameAt(FileScheme, rest)
                           ELSE IF IsDriveLetter(buffer)
                                THEN Pathname(FileScheme, SubSeq(rest, 3, Len(rest)))
                                ELSE PathnameAt(FileScheme, SubSeq(rest, 3, Len(rest))),
              opaque |-> FALSE]
        ELSE IF ~SpecialHost(buffer).ok THEN InvalidUrl
        ELSE [ok |-> TRUE, scheme |-> FileScheme, hasHost |-> TRUE,
              host |-> IF SpecialHost(buffer).text = Localhost THEN <<>>
                       ELSE SpecialHost(buffer).text,
              port |-> <<>>,
              pathname |-> PathnameAt(FileScheme, SubSeq(rest, 3 + Len(buffer), Len(rest))),
              opaque |-> FALSE] :
          buffer \in {IF IndexOf(SubSeq(rest, 3, Len(rest)), "/") = 0 THEN SubSeq(rest, 3, Len(rest))
                      ELSE SubSeq(rest, 3, 1 + IndexOf(SubSeq(rest, 3, Len(rest)), "/"))} } : TRUE

\* A URL of any other scheme: with a host after "//", with a path after "/",
\* and with an opaque path otherwise.  A URL without host whose path ".."
\* has emptied is its text "scheme:", and behaves as one with an opaque path
OtherUrl(scheme, rest) ==
    IF StartsWith(rest, <<"/", "/">>) THEN AuthorityUrl(scheme, SubSeq(rest, 3, Len(rest)))
    ELSE CHOOSE u \in
           { [ok |-> TRUE, scheme |-> scheme, hasHost |-> FALSE, host |-> <<>>, port |-> <<>>,
              pathname |-> pathname,
              opaque |-> ~StartsWith(rest, <<"/">>) \/ pathname = <<>>] :
               pathname \in {IF StartsWith(rest, <<"/">>) THEN PathnameAt(scheme, rest)
                             ELSE rest} } : TRUE

\* The URL of text, whose scheme ends at k (0: no scheme, new URL throws)
UrlAt(text, k) ==
    IF k = 0 THEN InvalidUrl
    ELSE CHOOSE u \in
           { IF scheme = FileScheme THEN FileUrl(rest)
             ELSE IF scheme \in SpecialSchemes THEN SpecialUrl(scheme, rest)
             ELSE OtherUrl(scheme, rest) :
               scheme \in {ToLowerCase(SubSeq(text, 1, k - 1))},
               rest \in {SubSeq(text, k + 1, Len(text))} } : TRUE

\* new URL(raw), for instance "localhost:8000": scheme "localhost", opaque
\* path "8000".  The one-element sets name a value that is computed once.
NewUrl(raw) ==
    CHOOSE u \in {UrlAt(text, k) : text \in {raw}, k \in {SchemeEnd(raw)}} : TRUE

\* try { new URL(raw) } catch { new URL(`http://${raw}`) }: the second attempt
\* is made only when the first one throws, and may throw too
ParseUrl(raw) ==
    CHOOSE u \in {IF first.ok THEN first ELSE NewUrl(HttpScheme \o raw) : first \in {NewUrl(raw)}} :
        TRUE

\* pathname.replace(/\/+$/, "")
RECURSIVE StripTrailingSlashes(_)
StripTrailingSlashes(p) ==
    IF p # <<>> /\ p[Len(p)] = "/" THEN StripTrailingSlashes(SubSeq(p, 1, Len(p) - 1)) ELSE p

\* Variant: the route is appended whatever the path ends with
AnalyzePathnameAlways(pathname) == StripTrailingSlashes(pathname) \o AnalyzeRoute

\* the pathname the handler assigns
AnalyzePathname(pathname) ==
    IF ~EndsWith(pathname, AnalyzeRoute)
    THEN StripTrailingSlashes(pathname) \o AnalyzeRoute
    ELSE pathname

\* urlObj.pathname = value: ignored by a URL with an opaque path; otherwise
\* value is read as a path, the empty value leaving a URL that is not special
\* and has a host without path.  A URL without host left with an empty path
\* ignores the assignments that follow
SetPathname(urlObj, value) ==
    IF urlObj.opaque THEN urlObj
    ELSE IF value = <<>> /\ urlObj.scheme \notin SpecialSchemes /\ urlObj.hasHost
    THEN [urlObj EXCEPT !.pathname = <<>>]
    ELSE CHOOSE u \in
           { [urlObj EXCEPT !.pathname = pathname,
                            !.opaque = ~urlObj.hasHost /\ pathname = <<>>] :
               pathname \in {PathnameAt(urlObj.scheme, value)} } : TRUE

\* urlObj as axios.post gets it: process.env.FASTAPI_URL (<<>> when unset)
\* parsed and given the analysis route; InvalidUrl when both attempts throw
ApiUrl(env) ==
    CHOOSE u \in
      { IF ~urlObj.ok THEN urlObj ELSE SetPathname(urlObj, AnalyzePathname(urlObj.pathname)) :
          urlObj \in {ParseUrl(IF env # <<>> THEN env ELSE DefaultFastApiUrl)} } : TRUE

\* urlObj.toString(): a path that starts with "//" is kept apart from the
\* scheme by "/." when the URL has no host
UrlToString(urlObj) ==
    urlObj.scheme \o <<":">>
      \o (IF urlObj.hasHost
          THEN <<"/", "/">> \o urlObj.host
                 \o (IF urlObj.port # <<>> THEN <<":">> \o urlObj.port ELSE <<>>)
          ELSE IF ~urlObj.opaque /\ StartsWith(urlObj.pathname, <<"/", "/">>) THEN <<"/", ".">>
          ELSE <<>>)
      \o urlObj.pathname

\* axios sends over http and https only; any other scheme makes axios.post
\* reject before anything is sent
Supported(urlObj) == urlObj.scheme \in {<<"h", "t", "t", "p">>, <<"h", "t", "t", "p", "s">>}

(***************************************************************************)
(* How axios.post can reject: the engine answered with a status outside    *)
(* 2xx (with or without a detail in its body), or no answer arrived.       *)
(***************************************************************************)
NoFailure == [kind |-> "", status |-> 0, detail |-> <<>>]
Rejected422 == [kind |-> "response", status |-> 422, detail |-> <<"b", "a", "d">>]
Rejected503 == [kind |-> "response", status |-> 503, detail |-> <<>>]
NetworkDown == [kind |-> "network", status |-> 0, detail |-> <<>>]
UnsupportedProtocol == [kind |-> "protocol", status |-> 0, detail |-> <<>>]

\* One outbound request: who sent it, where, what, and how it ended
\* (state "sent" while in flight, then "ok" or "failed")
NewCall(q, chatId, url, form) ==
    [n |-> q.n, chat |-> chatId, project |-> q.body.projectId, url |-> url, form |-> form,
     state |-> "sent", result |-> NoAnalysis, failure |-> NoFailure]

\* The outbound request of request number n ends
EndCall(n, state, result, failure) ==
    [i \in 1..Len(calls) |->
        IF calls[i].n = n /\ calls[i].state = "sent"
        THEN [calls[i] EXCEPT !.state = state, !.result = result, !.failure = failure]
        ELSE calls[i]]

(***************************************************************************)
(* The store                                                               *)
(***************************************************************************)
NewChatTitle == <<"N", "e", "w", " ", "c", "h", "a", "t">>

\* Chat.create({project, title: "New chat", messages: []})
NewChat(projectId) == [project |-> projectId, title |-> NewChatTitle, messages |-> <<>>]

\* Variant: the chat is looked up by its id alone
ChatFindOneAnyProject(chatId, projectId) ==
    IF chatId \in 1..Len(chats) THEN chatId ELSE 0

\* Chat.findOne({_id: chatId, project: projectId}): the chat id, 0 when none
ChatFindOne(chatId, projectId) ==
    IF chatId \in 1..Len(chats) /\ chats[chatId].project = projectId THEN chatId ELSE 0

\* Variant: the chat is looked up in project.chats instead of the Chat collection
ChatFindOneRegistered(projectId) ==
    IF projectId \in DOMAIN projChats /\ projChats[projectId] # <<>>
    THEN projChats[projectId][1] ELSE 0

\* Chat.findOne({project: projectId}): the first chat of the project in
\* insertion order, 0 when none
ChatFindOneOfProject(projectId) ==
    LET C == {c \in 1..Len(chats) : chats[c].project = projectId}
    IN  IF C = {} THEN 0 ELSE CHOOSE c \in C : \A d \in C : c <= d

\* Chat.findById(chatId): the chat id, 0 when none
ChatFindById(chatId) == IF chatId \in 1..Len(chats) THEN chatId ELSE 0

\* populate("messages"): the documents of the chat's message ids, in list order
Populate(ids) == [i \in 1..Len(ids) |-> messages[ids[i]]]

\* populate with sort {createdAt: 1}: message ids ascend with creation time
RECURSIVE SortAsc(_)
SortAsc(ids) ==
    IF ids = <<>> THEN <<>>
    ELSE LET m == CHOOSE x \in Range(ids) : \A y \in Range(ids) : x <= y
             Keep(x) == x # m
         IN  <<m>> \o SortAsc(SelectSeq(ids, Keep))

\* Variant: the id is put in front of the list
PushMessageFront(chatId, msgId) ==
    [chats EXCEPT ![chatId].messages = <<msgId>> \o @]

\* Variant: the save writes the list as it was when the message was created,
\* and with it drops the ids appended since
PushMessageStale(chatId, msgId) ==
    LET Older(id) == id < msgId
    IN  [chats EXCEPT ![chatId].messages = Append(SelectSeq(@, Older), msgId)]

\* chat.messages.push(id); chat.save(): mongoose saves the push as an atomic
\* $push on the stored array
PushMessage(chatId, msgId) ==
    [chats EXCEPT ![chatId].messages = Append(@, msgId)]

UserMessage(chatId, body) ==
    [chat |-> chatId,
     sender |-> UserSender,
     content |-> Trim(body.content),
     selectedDatasets |-> parseSelectedDatasets(body.selectedDatasets),
     tempFiles |-> ProcessFiles(body.files)]

BotMessage(chatId, analysis) ==
    [chat |-> chatId,
     sender |-> BotSender,
     content |-> JsonStringify(analysis),
     selectedDatasets |-> <<>>,
     tempFiles |-> <<>>]

(***************************************************************************)
(* Requests.  A connection holds one request: its inputs (op, user, body), *)
(* the handler's position (pc) and locals, and the response once sent.     *)
(***************************************************************************)
NoUser == [userId |-> "", organization |-> "", role |-> ""]
NoBody ==
    [chatId |-> 0, projectId |-> "", content |-> <<>>, files |-> <<>>,
     selectedDatasets |-> Missing, title |-> <<>>]
NoRes == [status |-> 0, error |-> "", chatId |-> 0, analysis |-> NoAnalysis, messages |-> <<>>]
IdleReq ==
    [pc |-> "idle", op |-> "", n |-> 0, user |-> NoUser, body |-> NoBody,
     chat |-> 0, msg |-> 0, form |-> NoForm, analysis |-> NoAnalysis, res |-> NoRes]

Slots == scn.slots

\* res.status(status).json({error})
Err(status, error) == [NoRes EXCEPT !.status = status, !.error = error]

\* The handler returns: the response is sent and the locals are gone
Done(q, res) ==
    [q EXCEPT !.pc = "done", !.chat = 0, !.msg = 0, !.form = NoForm,
              !.analysis = NoAnalysis, !.res = res]

Arrive(r, op, user, body) ==
    [IdleReq EXCEPT !.op = op, !.n = nreq + 1, !.user = user, !.body = body, !.pc = "loadProject"]

CanStart(r) == req[r].pc \in {"idle", "done"} /\ nreq < scn.maxReq

\* Project and team lookup followed by the access check, as chatHandler,
\* renameChat, getChatHistory and createChatManually do it: the error
\* response, or NoRes when the handler goes on
ProjectGuard(projectId, user) ==
    IF ~ProjectFindById(projectId) THEN Err(404, "Project not found.")
    ELSE IF ~Projects[projectId].team.exists THEN Err(404, "Team not found.")
    ELSE IF CheckAccess(Projects[projectId].team, user) # "ok"
         THEN Err(403, CheckAccess(Projects[projectId].team, user))
    ELSE NoRes

(***************************************************************************)
(* chatHandler                                                             *)
(***************************************************************************)
\* Variant: the text is tested without trim
ChatInvalidNoTrim(body) ==
    body.projectId = ""
    \/ (body.content = <<>>
        /\ ~(Len(ProcessFiles(body.files)) > 0)
        /\ ~(Len(parseSelectedDatasets(body.selectedDatasets)) > 0))

ChatInvalid(body) ==
    body.projectId = ""
    \/ (Trim(body.content) = <<>>
        /\ ~(Len(ProcessFiles(body.files)) > 0)
        /\ ~(Len(parseSelectedDatasets(body.selectedDatasets)) > 0))

ChatStart(r) ==
    /\ CanStart(r)
    /\ \E user \in scn.users, projectId \in scn.projectIds, chatId \in scn.chatIds,
          content \in scn.contents, files \in scn.fileLists, ds \in scn.dsInputs :
         LET body == [NoBody EXCEPT !.chatId = chatId, !.projectId = projectId,
                                    !.content = content, !.files = files,
                                    !.selectedDatasets = ds]
             q == Arrive(r, "chat", user, body)
         IN  req' = [req EXCEPT ![r] =
                 IF ChatInvalid(body)
                 THEN Done(q, Err(400, "projectId and at least one of content, selectedDatasets, or files are required."))
                 ELSE q]
    /\ nreq' = nreq + 1
    /\ UNCHANGED <<chats, messages, projChats, calls, scn>>

ChatLoadProject(r) ==
    /\ req[r].op = "chat" /\ req[r].pc = "loadProject"
    /\ LET g == ProjectGuard(req[r].body.projectId, req[r].user)
       IN  req' = [req EXCEPT ![r] = IF g # NoRes THEN Done(@, g) ELSE [@ EXCEPT !.pc = "findChat"]]
    /\ UNCHANGED <<chats, messages, projChats, calls, nreq, scn>>

ChatFindChat(r) ==
    /\ req[r].op = "chat" /\ req[r].pc = "findChat"
    /\ LET body == req[r].body
           chat == IF body.chatId # 0 THEN ChatFindOne(body.chatId, body.projectId)
                   ELSE ChatFindOneOfProject(body.projectId)
       IN  req' = [req EXCEPT ![r] =
               IF chat # 0 THEN [@ EXCEPT !.chat = chat, !.pc = "createMsg"]
               ELSE IF body.chatId # 0
                    THEN Done(@, Err(404, "Chat not found or could not be created."))
                    ELSE [@ EXCEPT !.pc = "createChat"]]
    /\ UNCHANGED <<chats, messages, projChats, calls, nreq, scn>>

\* Variant: the creation is issued twice
ChatCreateChatTwice(r) ==
    /\ req[r].op = "chat" /\ req[r].pc = "createChat"
    /\ chats' = Append(Append(chats, NewChat(req[r].body.projectId)), NewChat(req[r].body.projectId))
    /\ req' = [req EXCEPT ![r].chat = Len(chats) + 2, ![r].pc = "saveProject"]
    /\ UNCHANGED <<messages, projChats, calls, nreq, scn>>

ChatCreateChat(r) ==
    /\ req[r].op = "chat" /\ req[r].pc = "createChat"
    /\ chats' = Append(chats, NewChat(req[r].body.projectId))
    /\ req' = [req EXCEPT ![r].chat = Len(chats) + 1, ![r].pc = "saveProject"]
    /\ UNCHANGED <<messages, projChats, calls, nreq, scn>>

ChatSaveProject(r) ==
    /\ req[r].op = "chat" /\ req[r].pc = "saveProject"
    /\ projChats' = [projChats EXCEPT ![req[r].body.projectId] = Append(@, req[r].chat)]
    /\ req' = [req EXCEPT ![r].pc = "createMsg"]
    /\ UNCHANGED <<chats, messages, calls, nreq, scn>>

ChatCreateMessage(r) ==
    /\ req[r].op = "chat" /\ req[r].pc = "createMsg"
    /\ messages' = Append(messages, UserMessage(req[r].chat, req[r].body))
    /\ req' = [req EXCEPT ![r].msg = Len(messages) + 1, ![r].pc = "saveChat"]
    /\ UNCHANGED <<chats, projChats, calls, nreq, scn>>

ChatSaveChat(r) ==
    /\ req[r].op = "chat" /\ req[r].pc = "saveChat"
    /\ chats' = PushMessage(req[r].chat, req[r].msg)
    /\ req' = [req EXCEPT ![r] = Done(@, [NoRes EXCEPT !.status = 200, !.chatId = req[r].chat])]
    /\ UNCHANGED <<messages, projChats, calls, nreq, scn>>

(***************************************************************************)
(* aiReplyHandler                                                          *)
(***************************************************************************)
AiInvalid(body) == body.projectId = "" \/ body.chatId = 0 \/ Trim(body.content) = <<>>

AiStart(r) ==
    /\ CanStart(r)
    /\ \E user \in scn.users, projectId \in scn.projectIds, chatId \in scn.chatIds,
          content \in scn.contents :
         LET body == [NoBody EXCEPT !.chatId = chatId, !.projectId = projectId,
                                    !.content = content]
             q == Arrive(r, "ai", user, body)
         IN  req' = [req EXCEPT ![r] =
                 IF AiInvalid(body)
                 THEN Done(q, Err(400, "projectId, chatId, and content required."))
                 ELSE q]
    /\ nreq' = nreq + 1
    /\ UNCHANGED <<chats, messages, projChats, calls, scn>>

AiLoadProject(r) ==
    /\ req[r].op = "ai" /\ req[r].pc = "loadProject"
    /\ req' = [req EXCEPT ![r] =
           IF ~ProjectFindById(req[r].body.projectId)
           THEN Done(@, Err(404, "Project not found."))
           ELSE [@ EXCEPT !.pc = "loadChat"]]
    /\ UNCHANGED <<chats, messages, projChats, calls, nreq, scn>>

\* Chat.findById(chatId).populate("messages"), the team and access checks, and
\* everything computed from the loaded documents up to the outbound call, which
\* is sent in the same run: nothing is awaited in between.  A configured
\* address that new URL rejects twice throws into the catch block.
AiLoadChat(r) ==
    /\ req[r].op = "ai" /\ req[r].pc = "loadChat"
    /\ LET body == req[r].body
           project == Projects[body.projectId]
           chat == ChatFindById(body.chatId)
       IN  /\ req' = [req EXCEPT ![r] =
               IF chat = 0 THEN Done(@, Err(404, "Chat not found."))
               ELSE IF ~project.team.exists THEN Done(@, Err(404, "Team not found."))
               ELSE IF CheckAccess(project.team, req[r].user) # "ok"
                    THEN Done(@, Err(403, CheckAccess(project.team, req[r].user)))
               ELSE IF ~ApiUrl(scn.fastApiUrl).ok
                    THEN Done(@, Err(500, "Internal server error."))
               ELSE [@ EXCEPT !.chat = chat, !.pc = "post",
                              !.form = BuildForm(project, Populate(chats[chat].messages),
                                                 body.content)]]
           /\ calls' = IF req'[r].pc = "post"
                       THEN Append(calls, NewCall(req[r], chat, ApiUrl(scn.fastApiUrl), req'[r].form))
                       ELSE calls
    /\ UNCHANGED <<chats, messages, projChats, nreq, scn>>

\* axios.post resolves with the engine's result
AiPostOk(r) ==
    /\ req[r].op = "ai" /\ req[r].pc = "post"
    /\ ~scn.engineSilent
    /\ Supported(ApiUrl(scn.fastApiUrl))
    /\ \E analysis \in scn.results :
         /\ req' = [req EXCEPT ![r].analysis = analysis, ![r].pc = "createMsg"]
         /\ calls' = EndCall(req[r].n, "ok", analysis, NoFailure)
    /\ UNCHANGED <<chats, messages, projChats, nreq, scn>>

\* Variant: the failure is saved as the assistant's reply
AiPostFailSaved(r) ==
    /\ req[r].op = "ai" /\ req[r].pc = "post"
    /\ ~scn.engineSilent
    /\ \E failure \in scn.failures : calls' = EndCall(req[r].n, "failed", NoAnalysis, failure)
    /\ messages' = Append(messages, BotMessage(req[r].chat, AnalysisErr))
    /\ chats' = PushMessage(req[r].chat, Len(messages) + 1)
    /\ req' = [req EXCEPT ![r] = Done(@, Err(500, "Internal server error."))]
    /\ UNCHANGED <<projChats, nreq, scn>>

\* Variant: the request is sent once more before the handler gives up
AiPostFailRetried(r) ==
    /\ req[r].op = "ai" /\ req[r].pc = "post"
    /\ ~scn.engineSilent
    /\ \E failure \in scn.failures :
         calls' = Append(EndCall(req[r].n, "failed", NoAnalysis, failure),
                         [NewCall(req[r], req[r].chat, ApiUrl(scn.fastApiUrl), req[r].form)
                             EXCEPT !.state = "failed", !.failure = failure])
    /\ req' = [req EXCEPT ![r] = Done(@, Err(500, "Internal server error."))]
    /\ UNCHANGED <<chats, messages, projChats, nreq, scn>>

\* axios.post rejects: a non-2xx answer, a transport error, or an address
\* axios does not send to; the catch block answers 500 whatever the error was
AiPostFail(r) ==
    /\ req[r].op = "ai" /\ req[r].pc = "post"
    /\ Supported(ApiUrl(scn.fastApiUrl)) => ~scn.engineSilent
    /\ \E failure \in (IF Supported(ApiUrl(scn.fastApiUrl)) THEN scn.failures
                       ELSE {UnsupportedProtocol}) :
         calls' = EndCall(req[r].n, "failed", NoAnalysis, failure)
    /\ req' = [req EXCEPT ![r] = Done(@, Err(500, "Internal server error."))]
    /\ UNCHANGED <<chats, messages, projChats, nreq, scn>>

AiCreateMessage(r) ==
    /\ req[r].op = "ai" /\ req[r].pc = "createMsg"
    /\ messages' = Append(messages, BotMessage(req[r].chat, req[r].analysis))
    /\ req' = [req EXCEPT ![r].msg = Len(messages) + 1, ![r].pc = "saveChat"]
    /\ UNCHANGED <<chats, projChats, calls, nreq, scn>>

\* Variant: the result is returned without the list being saved
AiSaveChatUnsaved(r) ==
    /\ req[r].op = "ai" /\ req[r].pc = "saveChat"
    /\ req' = [req EXCEPT ![r] = Done(@, [NoRes EXCEPT !.status = 200, !.analysis = req[r].analysis])]
    /\ UNCHANGED <<chats, messages, projChats, calls, nreq, scn>>

AiSaveChat(r) ==
    /\ req[r].op = "ai" /\ req[r].pc = "saveChat"
    /\ chats' = PushMessage(req[r].chat, req[r].msg)
    /\ req' = [req EXCEPT ![r] = Done(@, [NoRes EXCEPT !.status = 200, !.analysis = req[r].analysis])]
    /\ UNCHANGED <<messages, projChats, calls, nreq, scn>>

(***************************************************************************)
(* renameChat                                                              *)
(***************************************************************************)
RenameInvalid(body) ==
    body.chatId = 0 \/ body.projectId = "" \/ body.title = <<>> \/ Trim(body.title) = <<>>

RenameStart(r) ==
    /\ CanStart(r)
    /\ \E user \in scn.users, projectId \in scn.projectIds, chatId \in scn.chatIds,
          title \in scn.titles :
         LET body == [NoBody EXCEPT !.chatId = chatId, !.projectId = projectId, !.title = title]
             q == Arrive(r, "rename", user, body)
         IN  req' = [req EXCEPT ![r] =
                 IF RenameInvalid(body)
                 THEN Done(q, Err(400, "chatId, projectId and title are required."))
                 ELSE q]
    /\ nreq' = nreq + 1
    /\ UNCHANGED <<chats, messages, projChats, calls, scn>>

RenameLoadProject(r) ==
    /\ req[r].op = "rename" /\ req[r].pc = "loadProject"
    /\ LET g == ProjectGuard(req[r].body.projectId, req[r].user)
       IN  req' = [req EXCEPT ![r] = IF g # NoRes THEN Done(@, g) ELSE [@ EXCEPT !.pc = "update"]]
    /\ UNCHANGED <<chats, messages, projChats, calls, nreq, scn>>

\* Variant: the title is stored as it was sent
RenameUpdateUntrimmed(r) ==
    /\ req[r].op = "rename" /\ req[r].pc = "update"
    /\ LET body == req[r].body
           chat == ChatFindOne(body.chatId, body.projectId)
       IN  IF chat = 0
           THEN /\ req' = [req EXCEPT ![r] = Done(@, Err(404, "Chat not found."))]
                /\ UNCHANGED chats
           ELSE /\ chats' = [chats EXCEPT ![chat].title = body.title]
                /\ req' = [req EXCEPT ![r] = Done(@, [NoRes EXCEPT !.status = 200, !.chatId = chat])]
    /\ UNCHANGED <<messages, projChats, calls, nreq, scn>>

\* Chat.findOneAndUpdate({_id: chatId, project: projectId}, {title: title.trim()})
RenameUpdate(r) ==
    /\ req[r].op = "rename" /\ req[r].pc = "update"
    /\ LET body == req[r].body
           chat == ChatFindOne(body.chatId, body.projectId)
       IN  IF chat = 0
           THEN /\ req' = [req EXCEPT ![r] = Done(@, Err(404, "Chat not found."))]
                /\ UNCHANGED chats
           ELSE /\ chats' = [chats EXCEPT ![chat].title = Trim(body.title)]
                /\ req' = [req EXCEPT ![r] = Done(@, [NoRes EXCEPT !.status = 200, !.chatId = chat])]
    /\ UNCHANGED <<messages, projChats, calls, nreq, scn>>

(***************************************************************************)
(* getChatHistory                                                          *)
(***************************************************************************)
\* projectId and chatId are route parameters: never absent
HistoryStart(r) ==
    /\ CanStart(r)
    /\ \E user \in scn.users, projectId \in scn.projectIds \ {""}, chatId \in scn.chatIds \ {0} :
         req' = [req EXCEPT ![r] =
                     Arrive(r, "history", user,
                            [NoBody EXCEPT !.chatId = chatId, !.projectId = projectId])]
    /\ nreq' = nreq + 1
    /\ UNCHANGED <<chats, messages, projChats, calls, scn>>

HistoryLoadProject(r) ==
    /\ req[r].op = "history" /\ req[r].pc = "loadProject"
    /\ LET g == ProjectGuard(req[r].body.projectId, req[r].user)
       IN  req' = [req EXCEPT ![r] = IF g # NoRes THEN Done(@, g) ELSE [@ EXCEPT !.pc = "loadChat"]]
    /\ UNCHANGED <<chats, messages, projChats, calls, nreq, scn>>

\* Chat.findOne({_id, project}).populate(messages sorted by createdAt); the
\* response lists the messages by id
HistoryLoadChat(r) ==
    /\ req[r].op = "history" /\ req[r].pc = "loadChat"
    /\ LET chat == ChatFindOne(req[r].body.chatId, req[r].body.projectId)
       IN  req' = [req EXCEPT ![r] =
               IF chat = 0 THEN Done(@, Err(404, "Chat not found."))
               ELSE Done(@, [NoRes EXCEPT !.status = 200, !.chatId = chat,
                                          !.messages = SortAsc(chats[chat].messages)])]
    /\ UNCHANGED <<chats, messages, projChats, calls, nreq, scn>>

(***************************************************************************)
(* createChatManually                                                      *)
(***************************************************************************)
CreateStart(r) ==
    /\ CanStart(r)
    /\ \E user \in scn.users, projectId \in scn.projectIds :
         LET q == Arrive(r, "create", user, [NoBody EXCEPT !.projectId = projectId])
         IN  req' = [req EXCEPT ![r] =
                 IF projectId = "" THEN Done(q, Err(400, "projectId is required.")) ELSE q]
    /\ nreq' = nreq + 1
    /\ UNCHANGED <<chats, messages, projChats, calls, scn>>

CreateLoadProject(r) ==
    /\ req[r].op = "create" /\ req[r].pc = "loadProject"
    /\ LET g == ProjectGuard(req[r].body.projectId, req[r].user)
       IN  req' = [req EXCEPT ![r] = IF g # NoRes THEN Done(@, g) ELSE [@ EXCEPT !.pc = "createChat"]]
    /\ UNCHANGED <<chats, messages, projChats, calls, nreq, scn>>

CreateChat(r) ==
    /\ req[r].op = "create" /\ req[r].pc = "createChat"
    /\ chats' = Append(chats, NewChat(req[r].body.projectId))
    /\ req' = [req EXCEPT ![r].chat = Len(chats) + 1, ![r].pc = "saveProject"]
    /\ UNCHANGED <<messages, projChats, calls, nreq, scn>>

CreateSaveProject(r) ==
    /\ req[r].op = "create" /\ req[r].pc = "saveProject"
    /\ projChats' = [projChats EXCEPT ![req[r].body.projectId] = Append(@, req[r].chat)]
    /\ req' = [req EXCEPT ![r] = Done(@, [NoRes EXCEPT !.status = 201, !.chatId = req[r].chat])]
    /\ UNCHANGED <<chats, messages, calls, nreq, scn>>

(***************************************************************************)
(* The catch block of every handler: an awaited storage call rejects       *)
(***************************************************************************)
StoragePcs ==
    {"loadProject", "findChat", "loadChat", "createChat", "saveProject", "createMsg",
     "saveChat", "update"}

CatchMessage(op) ==
    CASE op = "history" -> "Server error."
      [] op = "create" -> "Server error while creating chat."
      [] OTHER -> "Internal server error."

PersistFail(r) ==
    /\ scn.storageFails
    /\ req[r].pc \in StoragePcs
    /\ req' = [req EXCEPT ![r] = Done(@, Err(500, CatchMessage(req[r].op)))]
    /\ UNCHANGED <<chats, messages, projChats, calls, nreq, scn>>

(***************************************************************************)
(* Environments                                                            *)
(***************************************************************************)
Member == [userId |-> "u1", organization |-> "o1", role |-> "user"]
Outsider == [userId |-> "u2", organization |-> "o1", role |-> "user"]
OtherOrgMember == [userId |-> "u3", organization |-> "o2", role |-> "user"]
Stranger == [userId |-> "u2", organization |-> "o2", role |-> "user"]
Admin == [userId |-> "u9", organization |-> "o9", role |-> SuperAdmin]

Q == <<"q">>
CsvA == Upload(<<"a", ".", "c", "s", "v">>, TextCsv, <<"a">>)
CsvUpper == Upload(<<"B", ".", "C", "S", "V">>, "application/octet-stream", <<"b">>)
CsvByMime == Upload(<<"n", "o", "t", "e", "s">>, TextCsv, <<>>)
Png == Upload(<<"c", ".", "p", "n", "g">>, "image/png", <<"a">>)
DotFile == Upload(<<".", "c", "s", "v">>, "application/octet-stream", <<"b">>)

\* Concurrent connections of one team member on one project
ScnConc ==
    [slots |-> {1, 2}, maxReq |-> MaxReqConc, storageFails |-> TRUE,
     users |-> {Member}, projectIds |-> {"p1"}, chatIds |-> {0, 1},
     contents |-> {Q}, fileLists |-> {<<>>},
     dsInputs |-> {Text(JsonD1)},
     titles |-> {<<"t">>}, results |-> {AnalysisOk},
     fastApiUrl |-> <<>>, engineSilent |-> FALSE, failures |-> {NetworkDown}]

\* One connection: every request completes before the next starts.  Dataset
\* selections vary.
ScnSeq ==
    [slots |-> {1}, maxReq |-> MaxReqSeq, storageFails |-> TRUE,
     users |-> {Member}, projectIds |-> {"p1"}, chatIds |-> {0, 1},
     contents |-> {Q}, fileLists |-> {<<>>},
     dsInputs |-> {Missing, Text(JsonD1), Text(JsonD2D1), Text(JsonD3D2),
                   Text(<<"d", "2", ",", " ", "d", "2">>)},
     titles |-> {<<"t">>}, results |-> {AnalysisOk},
     fastApiUrl |-> <<>>, engineSilent |-> FALSE, failures |-> {NetworkDown}]

\* One connection; texts and uploads vary.
ScnFiles ==
    [slots |-> {1}, maxReq |-> MaxReqFiles, storageFails |-> TRUE,
     users |-> {Member}, projectIds |-> {"", "p1"}, chatIds |-> {0, 1},
     contents |-> {<<>>, <<" ">>, <<" ", "q", " ">>},
     fileLists |-> {<<>>, <<Png>>, <<CsvA, Png, CsvUpper>>, <<DotFile, CsvByMime>>},
     dsInputs |-> {Missing, Text(JsonEmpty), Text(<<",">>), Text(JsonD1)},
     titles |-> {<<" ">>, <<"t", " ">>}, results |-> {AnalysisOk, AnalysisErr},
     fastApiUrl |-> <<>>, engineSilent |-> FALSE, failures |-> {NetworkDown}]

\* One connection; callers and projects vary.
ScnAuth ==
    [slots |-> {1}, maxReq |-> MaxReqAuth, storageFails |-> TRUE,
     users |-> {Member, Outsider, OtherOrgMember, Stranger, Admin},
     projectIds |-> {"", "p1", "p2", "p3", "p9"}, chatIds |-> {0, 1, 2},
     contents |-> {Q, <<" ">>}, fileLists |-> {<<>>},
     dsInputs |-> {Missing},
     titles |-> {<<"t">>}, results |-> {AnalysisOk},
     fastApiUrl |-> <<>>, engineSilent |-> FALSE, failures |-> {NetworkDown}]

\* One connection on a chat that already has a history.
ScnHist ==
    [slots |-> {1}, maxReq |-> MaxReqHist, storageFails |-> TRUE,
     users |-> {Member}, projectIds |-> {"p1"}, chatIds |-> {0, 1},
     contents |-> {Q}, fileLists |-> {<<>>},
     dsInputs |-> {Missing, Text(JsonD1)},
     titles |-> {<<"t">>}, results |-> {AnalysisOk},
     fastApiUrl |-> <<>>, engineSilent |-> FALSE, failures |-> {NetworkDown}]

\* One connection; the engine's address, its way of failing and whether it
\* answers at all vary.
FastApiUrls ==
    { <<>>,
      <<"h", "t", "t", "p", ":", "/", "/", "h">>,
      <<"h", "t", "t", "p", ":", "/", "/", "h", "/">>,
      <<"h", "t", "t", "p", ":", "/", "/", "h", "/", "a", "n", "a", "l", "y", "z", "e">>,
      <<"h", "t", "t", "p", ":", "/", "/", "h", "/", "a", "n", "a", "l", "y", "z", "e", "/">>,
      <<"h", "t", "t", "p", ":", "/", "/", "h", "/", "a", "p", "i", "/", "/">>,
      <<"h", "/", "a", "p", "i", "/", "a", "n", "a", "l", "y", "z", "e">>,
      <<"h">>,
      <<"h", "t", "t", "p", "s", ":", "/", "/", "h">>,
      <<"h", ":", "8">>,
      <<"h", ":", "8", "/", "a", "p", "i">>,
      <<"1", "h", ":", "8">>,
      <<"/">>,
      <<"h", "t", "t", "p", ":", "/", "/", "h", ":", "x">>,
      <<"h", "t", "t", "p", ":", "/", "/", "h", ":", "0", "8", "0">>,
      <<"h", "t", "t", "p", ":", "/", "/", "h", ":", "9", "9", "9", "9", "9">>,
      <<"h", "t", "t", "p", ":", "/", "/", "H", ":", "/", "a", "/", ".", ".", "/", "b", "/", ".">>,
      <<"h", "t", "t", "p", ":", "/", "/", "0", "x", "1", "0", ".", "2", "5", "6">>,
      <<"f", "i", "l", "e", ":", "x">>,
      <<"x", ":", "/", "/", "h", ":", "x">>,
      <<"x", ":", "/", "/", "H", ":", "0", "8">>,
      <<"x", ":", "/", ".", "/", "/">>,
      <<"h", "t", "t", "p", ":", "/", "/", "h", "/", "a", "/", ".", "b", "/", ".", ".">>,
      <<"x", ":", "/", "/", "h", "/", ".", ".">>,
      <<"x", ":", "/", "a", "/", ".", ".", "/", ".", ".">>,
      <<"f", "i", "l", "e", ":", "/", "/", "/", "c", ":", "8", "/", ".", ".">> }

ScnEngine ==
    [slots |-> {1}, maxReq |-> MaxReqEngine, storageFails |-> TRUE,
     users |-> {Member}, projectIds |-> {"p1"}, chatIds |-> {0, 1},
     contents |-> {Q}, fileLists |-> {<<>>},
     dsInputs |-> {Missing},
     titles |-> {<<"t">>}, results |-> {AnalysisOk},
     fastApiUrl |-> <<>>, engineSilent |-> FALSE,
     failures |-> {Rejected422, Rejected503, NetworkDown}]

EmptyStore(s) ==
    /\ scn = s
    /\ chats = <<>>
    /\ messages = <<>>
    /\ projChats = [p \in ProjectIds |-> <<>>]
    /\ calls = <<>>
    /\ req = [r \in s.slots |-> IdleReq]
    /\ nreq = 0

Init == EmptyStore(ScnConc)
InitSeq == EmptyStore(ScnSeq)
InitFiles == EmptyStore(ScnFiles)
InitAuth == EmptyStore(ScnAuth)

InitEngine ==
    \E url \in FastApiUrls, silent \in BOOLEAN :
        EmptyStore([ScnEngine EXCEPT !.fastApiUrl = url, !.engineSilent = silent])

\* A history of h turns in chat 1 of project p1, as earlier submits and replies
\* left it: user turns (each selecting a dataset when selecting, some with
\* uploads when uploading) and, when replied, the assistant's answers in between.
PastMessage(i, replied, selecting, uploading) ==
    IF replied /\ i % 2 = 0
    THEN BotMessage(1, IF i % 4 = 0 THEN AnalysisErr ELSE AnalysisOk)
    ELSE [chat |-> 1, sender |-> UserSender, content |-> <<"m", Digits[i]>>,
          selectedDatasets |-> IF selecting THEN <<StrV(IF i % 3 = 0 THEN D1 ELSE D2)>> ELSE <<>>,
          tempFiles |-> IF uploading /\ i % 4 = 1 THEN ProcessFiles(<<CsvA, Png, CsvByMime>>)
                        ELSE IF uploading /\ i % 4 = 3 THEN ProcessFiles(<<CsvUpper>>)
                        ELSE <<>>]

InitHist ==
    /\ scn = ScnHist
    /\ \E h \in 0..MaxHist, replied \in BOOLEAN, selecting \in BOOLEAN, uploading \in BOOLEAN :
         /\ messages = [i \in 1..h |-> PastMessage(i, replied, selecting, uploading)]
         /\ chats = << [project |-> "p1", title |-> NewChatTitle, messages |-> [i \in 1..h |-> i]] >>
    /\ projChats = [p \in ProjectIds |-> IF p = "p1" THEN <<1>> ELSE <<>>]
    /\ calls = <<>>
    /\ req = [r \in ScnHist.slots |-> IdleReq]
    /\ nreq = 0

Next ==
    \E r \in Slots :
        \/ ChatStart(r) \/ ChatLoadProject(r) \/ ChatFindChat(r) \/ ChatCreateChat(r)
        \/ ChatSaveProject(r) \/ ChatCreateMessage(r) \/ ChatSaveChat(r)
        \/ AiStart(r) \/ AiLoadProject(r) \/ AiLoadChat(r) \/ AiPostOk(r) \/ AiPostFail(r)
        \/ AiCreateMessage(r) \/ AiSaveChat(r)
        \/ RenameStart(r) \/ RenameLoadProject(r) \/ RenameUpdate(r)
        \/ HistoryStart(r) \/ HistoryLoadProject(r) \/ HistoryLoadChat(r)
        \/ CreateStart(r) \/ CreateLoadProject(r) \/ CreateChat(r) \/ CreateSaveProject(r)
        \/ PersistFail(r)

Spec == Init /\ [][Next]_vars
SpecSeq == InitSeq /\ [][Next]_vars
SpecFiles == InitFiles /\ [][Next]_vars
SpecAuth == InitAuth /\ [][Next]_vars
SpecHist == InitHist /\ [][Next]_vars

\* Every step that can be taken is taken in the end: the event loop runs each
\* handler on, and the store and an engine that is not silent answer
SpecEngine == InitEngine /\ [][Next]_vars /\ WF_vars(Next)

(***************************************************************************)
(* Properties of the analysis context                                      *)
(***************************************************************************)
\* A reply request that has loaded its chat and is about to call the engine.
\* With one connection the store is as the request loaded it.
Posting(r) == req[r].op = "ai" /\ req[r].pc = "post"
PostingHistory(r) == Populate(chats[req[r].chat].messages)
PostingProject(r) == Projects[req[r].body.projectId]

IsRegistryEntry(e) == e.url # CurrentUpload
RegistryEntries(form) == SelectSeq(form.context.datasets, IsRegistryEntry)

\* Every selection of the history, normalised to a string, in creation order
RECURSIVE Selections(_)
Selections(hist) ==
    IF hist = <<>> THEN <<>>
    ELSE Map(String, Head(hist).selectedDatasets) \o Selections(Tail(hist))

\* The project's datasets some message of the history selected
Resolvable(project, hist) ==
    {d \in Range(project.datasets) : String(d._id) \in Range(Selections(hist))}

EntriesOf(reg, d) == {i \in 1..Len(reg) : reg[i] = [name |-> d.name, url |-> d.url]}

\* C1: the dataset list of a reply holds exactly one registry entry for each
\* dataset of the project that some message of the chat selected, however
\* many messages selected it, and no other registry entry.
C1_DatasetDeduplication ==
    \A r \in Slots :
        Posting(r) =>
            LET reg == RegistryEntries(req[r].form)
                R == Resolvable(PostingProject(r), PostingHistory(r))
            IN  /\ \A d \in R : Cardinality(EntriesOf(reg, d)) = 1
                /\ Len(reg) = Cardinality(R)

TimesSelected(hist, id) ==
    Cardinality({i \in 1..Len(hist) : id \in Range(Map(String, hist[i].selectedDatasets))})

C1_Witness ==
    \E r \in Slots :
        /\ Posting(r)
        /\ TimesSelected(PostingHistory(r), D1) >= 2
        /\ Cardinality(EntriesOf(RegistryEntries(req[r].form), PostingProject(r).datasets[1])) = 1

FirstSelected(hist, id) ==
    CHOOSE i \in 1..Len(Selections(hist)) :
        /\ Selections(hist)[i] = id
        /\ \A j \in 1..(i - 1) : Selections(hist)[j] # id

\* The dataset of the project a registry entry was made from
DatasetOf(project, e) ==
    CHOOSE d \in Range(project.datasets) : [name |-> d.name, url |-> d.url] = e

\* C2: the registry entries of a reply's dataset list are in the
\* order in which their identifiers were first selected in the chat.
C2_FirstSeenOrder ==
    \A r \in Slots :
        Posting(r) =>
            LET reg == RegistryEntries(req[r].form)
                hist == PostingHistory(r)
                p == PostingProject(r)
            IN  \A a, b \in 1..Len(reg) :
                    a < b => FirstSelected(hist, String(DatasetOf(p, reg[a])._id))
                             < FirstSelected(hist, String(DatasetOf(p, reg[b])._id))


\* C3: the conversation history of a reply on a chat of n messages has
\* min(n, 5) entries, the last min(n, 5) messages of the chat in list order,
\* a user message saved just before the request included.
C3_RecentTurnsWindow ==
    \A r \in Slots :
        Posting(r) =>
            LET hist == PostingHistory(r)
                turns == req[r].form.context.messages
                k == Min(Len(hist), 5)
            IN  /\ Len(turns) = k
                /\ \A i \in 1..k :
                     LET m == hist[Len(hist) - k + i]
                     IN  /\ turns[i].content = m.content
                         /\ turns[i].role = (IF m.sender = "user" THEN "user" ELSE "assistant")

C3_Witness ==
    \E r \in Slots :
        /\ Posting(r)
        /\ req[r].n = 2
        /\ Len(PostingHistory(r)) >= 7
        /\ Len(messages) = Len(PostingHistory(r))
        /\ PostingHistory(r)[Len(PostingHistory(r))].content = Q
        /\ Len(req[r].form.context.messages) = 5
        /\ req[r].form.context.messages[5] = [role |-> "user", content |-> Q]
        /\ \E i \in 1..4 : req[r].form.context.messages[i].role = "assistant"

(***************************************************************************)
(* Properties of the handlers                                              *)
(***************************************************************************)
\* Connection r takes the step: its request starts, moves on or is answered
Stepped(r) == req'[r] # req[r]

Finished(r) == req[r].pc = "done"

\* A tabular upload: declared as CSV, or named with a .csv extension in any case
HasCsvExtension(name) ==
    /\ Len(name) >= 5
    /\ ToLowerCase(SubSeq(name, Len(name) - 3, Len(name))) = <<".", "c", "s", "v">>
Tabular(f) == f.mimetype = "text/csv" \/ HasCsvExtension(f.originalname)

NoTabular(files) == \A i \in 1..Len(files) : ~Tabular(files[i])

\* A submission with nothing in it: blank text, no tabular file, no dataset
EmptyTurn(body) ==
    /\ Trim(body.content) = <<>>
    /\ NoTabular(body.files)
    /\ parseSelectedDatasets(body.selectedDatasets) = <<>>

\* C4: a submit whose text is blank, with no retained file and no dataset
\* selection, is answered 400 at once and changes no chat, no message and no
\* project chat list.
C4_EmptyTurnRejected ==
    [][\A r \in Slots :
          (Stepped(r) /\ req'[r].op = "chat" /\ EmptyTurn(req'[r].body))
              => (req'[r].pc = "done" /\ req'[r].res.status = 400 /\ UNCHANGED store)]_vars

C4_Witness ==
    \E r \in Slots :
        /\ Finished(r) /\ req[r].op = "chat"
        /\ req[r].body.projectId = "p1"
        /\ req[r].body.content = <<" ">>
        /\ req[r].body.files = <<Png>>
        /\ EmptyTurn(req[r].body)
        /\ req[r].res.status = 400
        /\ Len(chats) = 1 /\ Len(messages) = 1

\* The caller is neither superuser nor a member of the project's team in the
\* caller's organization
Unauthorized(q) ==
    /\ q.op # ""
    /\ q.body.projectId \in ProjectIds
    /\ Projects[q.body.projectId].team.exists
    /\ q.user.role # "superadmin"
    /\ ~(/\ Projects[q.body.projectId].team.organization = q.user.organization
         /\ q.user.userId \in Range(Projects[q.body.projectId].team.members))

\* The step that runs the access check of the request of connection r
GuardStep(r) ==
    \/ req[r].op \in {"chat", "rename", "history", "create"} /\ req[r].pc = "loadProject"
    \/ req[r].op = "ai" /\ req[r].pc = "loadChat" /\ req[r].body.chatId \in 1..Len(chats)

\* C5: in every entry point, no step of a request of an unauthorized caller
\* changes a chat, a message or a project chat list or calls the engine; the
\* request is never answered with success, and its access check ends it.
C5_AuthorizationShortCircuit ==
    [][\A r \in Slots :
          (Stepped(r) /\ Unauthorized(req'[r]))
              => /\ UNCHANGED <<chats, messages, projChats, calls>>
                 /\ req'[r].pc = "done" => req'[r].res.status \in {400, 403, 404, 500}
                 /\ GuardStep(r) => (req'[r].pc = "done" /\ req'[r].res.status \in {403, 500})]_vars

C5_Witness ==
    \E r \in Slots :
        /\ Finished(r) /\ req[r].op = "ai"
        /\ Unauthorized(req[r])
        /\ req[r].body.chatId = 1 /\ Len(chats) >= 1 /\ chats[1].project = req[r].body.projectId
        /\ req[r].res.status = 403
        /\ calls = <<>>

\* The decision the access check is to take
Decision(team, user) ==
    CASE user.role = "superadmin" -> "ok"
      [] user.role # "superadmin" /\ team.organization # user.organization ->
           "Not in this organization."
      [] user.role # "superadmin" /\ team.organization = user.organization
         /\ user.userId \notin Range(team.members) ->
           "Not a member of this team."
      [] OTHER -> "ok"

\* Positions of a handler after its access check
PastGuard(op) ==
    CASE op = "chat" -> {"findChat", "createChat", "saveProject", "createMsg", "saveChat"}
      [] op = "ai" -> {"post", "createMsg", "saveChat"}
      [] op = "rename" -> {"update"}
      [] op = "history" -> {"loadChat"}
      [] op = "create" -> {"createChat", "saveProject"}
      [] OTHER -> {}

\* The response shows what the access check decided: not a 400 or a 500, and
\* not the 404 of a reply request whose chat lookup comes first
ShowsDecision(q) ==
    /\ q.pc = "done"
    /\ q.res.status \notin {400, 500}
    /\ ~(q.op = "ai" /\ q.res.status = 404)

\* C6: for a project with a team, a request gets past the access check exactly
\* when the caller is superuser, or is of the team's organization and among
\* its members; otherwise it is answered 403, with the organization reason
\* when the organizations differ (member or not) and the membership reason when
\* only the membership is missing.
C6_AuthorizationDecision ==
    \A r \in Slots :
        (req[r].body.projectId \in ProjectIds /\ Projects[req[r].body.projectId].team.exists)
            => LET d == Decision(Projects[req[r].body.projectId].team, req[r].user)
               IN  /\ req[r].pc \in PastGuard(req[r].op) => d = "ok"
                   /\ (Finished(r) /\ req[r].res.status \in {200, 201}) => d = "ok"
                   /\ (Finished(r) /\ req[r].res.status = 403) => (d # "ok" /\ req[r].res.error = d)
                   /\ (ShowsDecision(req[r]) /\ d # "ok") => req[r].res.status = 403

C6_Witness ==
    \E r \in Slots :
        /\ Finished(r)
        /\ req[r].body.projectId = "p1"
        /\ req[r].user = Stranger
        /\ req[r].res.status = 403
        /\ req[r].res.error = "Not in this organization."

\* The engine call of the request of connection r fails in this step
EngineFails(r) ==
    /\ req[r].op = "ai" /\ req[r].pc = "post"
    /\ \E i \in 1..Len(calls') :
         /\ calls'[i].n = req[r].n
         /\ calls[i].state = "sent" /\ calls'[i].state = "failed"

HistoryComplete ==
    \A r \in Slots :
        (Finished(r) /\ req[r].op = "history" /\ req[r].res.status = 200)
            => \A id \in Range(chats[req[r].res.chatId].messages) : id \in Range(req[r].res.messages)

\* C7: when the engine call of a reply fails, the request ends there with an
\* error: no message is created and no chat's message list changes, so the
\* user messages saved before are still listed; and get-history returns every
\* message of the chat's list.
C7_PartialFailurePersistence ==
    [][/\ \A r \in Slots :
            EngineFails(r) => /\ req'[r].pc = "done" /\ req'[r].res.status = 500
                              /\ messages' = messages /\ chats' = chats
       /\ HistoryComplete']_vars

C7_Witness ==
    \E r \in Slots :
        /\ Finished(r) /\ req[r].op = "history" /\ req[r].res.status = 200
        /\ Len(calls) = 1 /\ calls[1].state = "failed" /\ calls[1].chat = req[r].res.chatId
        /\ req[r].res.messages # <<>>
        /\ \A i \in 1..Len(req[r].res.messages) :
             messages[req[r].res.messages[i]].sender = "user"
        /\ \A i \in 1..Len(messages) : messages[i].sender = "user"

\* C8: the files stored on a created user message are the tabular uploads of
\* the submission, in upload order, and nothing else.
C8_NonTabularDropped ==
    \A r \in Slots :
        (req[r].op = "chat" /\ req[r].pc = "saveChat")
            => LET stored == messages[req[r].msg].tempFiles
                   kept == SelectSeq(req[r].body.files, Tabular)
               IN  /\ Len(stored) = Len(kept)
                   /\ \A i \in 1..Len(kept) :
                        /\ stored[i].originalname = kept[i].originalname
                        /\ stored[i].mimetype = kept[i].mimetype
                        /\ stored[i].size = kept[i].size

C8_Witness ==
    \E r \in Slots :
        /\ req[r].op = "chat" /\ req[r].pc = "saveChat"
        /\ req[r].body.files = <<CsvA, Png, CsvUpper>>
        /\ Len(messages[req[r].msg].tempFiles) = 2
        /\ messages[req[r].msg].tempFiles[1].originalname = CsvA.originalname
        /\ messages[req[r].msg].tempFiles[2].originalname = CsvUpper.originalname

ChatsOf(projectId) == {c \in 1..Len(chats) : chats[c].project = projectId}

\* C9: with one request at a time, a submit creates a chat only when it names
\* no chat id and its project has no chat at all; chats are never removed or
\* moved, so submits create at most one chat per project.
C9_SequentialResolution ==
    [][/\ Len(chats') >= Len(chats)
       /\ \A c \in 1..Len(chats) : chats'[c].project = chats[c].project
       /\ \A r \in Slots :
            (Stepped(r) /\ req[r].op = "chat" /\ Len(chats') > Len(chats))
                => (req[r].body.chatId = 0 /\ ChatsOf(req[r].body.projectId) = {})]_vars

C9_Witness ==
    \E r \in Slots :
        /\ Finished(r) /\ req[r].op = "chat" /\ req[r].res.status = 200
        /\ req[r].body.chatId = 0
        /\ req[r].n = 2
        /\ ChatsOf(req[r].body.projectId) = {req[r].res.chatId}
        /\ Len(chats[req[r].res.chatId].messages) = 2

\* C10: concurrent submits without a chat id can each create a chat for the
\* same project; there are never more chats than requests.
C10_CreationRace ==
    /\ Len(chats) <= nreq
    /\ \A p \in ProjectIds : Cardinality(ChatsOf(p)) <= nreq

C10_Witness ==
    /\ nreq = 2
    /\ \A r \in Slots :
         /\ Finished(r) /\ req[r].op = "chat" /\ req[r].res.status = 200
         /\ req[r].body.chatId = 0 /\ req[r].body.projectId = "p1"
         /\ Len(chats[req[r].res.chatId].messages) = 1
    /\ req[1].res.chatId # req[2].res.chatId
    /\ Cardinality(ChatsOf("p1")) = 2

(***************************************************************************)
(* Properties of the chat lookup and of the outbound call                  *)
(***************************************************************************)
\* The request names a chat that does not exist or is of another project
NamesForeignChat(q) ==
    /\ q.op \in {"chat", "rename", "history"}
    /\ q.body.chatId # 0
    /\ ~(q.body.chatId \in 1..Len(chats) /\ chats[q.body.chatId].project = q.body.projectId)

\* The step that looks up the chat of the request of connection r
LookupStep(r) ==
    \/ req[r].op = "chat" /\ req[r].pc = "findChat"
    \/ req[r].op = "rename" /\ req[r].pc = "update"
    \/ req[r].op = "history" /\ req[r].pc = "loadChat"

ChatNotFound(res) ==
    res.status = 404 /\ res.error \in {"Chat not found.", "Chat not found or could not be created."}

\* C11: no step of a submit, rename or get-history request that names a chat
\* which does not exist or belongs to another project changes a chat or creates
\* a message; the request is never answered with success, and its chat lookup
\* ends it with chat-not-found (or with 500 when the storage call itself fails).
C11_ChatLookupProjectScoped ==
    [][\A r \in Slots :
          (Stepped(r) /\ NamesForeignChat(req'[r]))
              => /\ chats' = chats /\ messages' = messages
                 /\ req'[r].pc = "done" => req'[r].res.status \notin {200, 201}
                 /\ LookupStep(r) => /\ req'[r].pc = "done"
                                     /\ ChatNotFound(req'[r].res) \/ req'[r].res.status = 500]_vars

C11_Witness ==
    \E r \in Slots :
        /\ Finished(r) /\ req[r].op = "rename"
        /\ req[r].body.chatId = 1 /\ Len(chats) = 1
        /\ chats[1].project = "p1" /\ req[r].body.projectId = "p2"
        /\ ChatNotFound(req[r].res)
        /\ chats[1].title = NewChatTitle

CallsOf(n) == {i \in 1..Len(calls) : calls[i].n = n}

\* The reply request passes validation, lookups and authorization
ReplyPasses(q) ==
    /\ q.body.projectId # "" /\ q.body.chatId # 0
    /\ \E i \in 1..Len(q.body.content) : q.body.content[i] # " "
    /\ q.body.projectId \in ProjectIds
    /\ q.body.chatId \in 1..Len(chats)
    /\ Projects[q.body.projectId].team.exists
    /\ Decision(Projects[q.body.projectId].team, q.user) = "ok"

\* C12: no request has more than one outbound call; only reply requests have
\* one; a reply request that fails validation, a lookup or authorization has
\* none; one that passes has exactly one from the moment it is sent, whether
\* the call succeeds or fails (none only when a storage call failed first).
C12_OneExternalCall ==
    /\ \A i, j \in 1..Len(calls) : calls[i].n = calls[j].n => i = j
    /\ \A r \in Slots :
         LET q == req[r]
             k == Cardinality(CallsOf(q.n))
         IN  q.n # 0 =>
               /\ q.op # "ai" => k = 0
               /\ (q.op = "ai" /\ ~ReplyPasses(q)) => k = 0
               /\ (q.op = "ai" /\ q.pc \in {"loadProject", "loadChat"}) => k = 0
               /\ (q.op = "ai" /\ q.pc \in {"post", "createMsg", "saveChat"}) => k = 1
               /\ (q.op = "ai" /\ q.pc = "done" /\ q.res.status = 200) => k = 1
               /\ (q.op = "ai" /\ q.pc = "done" /\ k = 0 /\ ReplyPasses(q)) => q.res.status = 500

C12_Witness ==
    \E r \in Slots :
        /\ Finished(r) /\ req[r].op = "ai" /\ req[r].res.status = 500
        /\ ReplyPasses(req[r])
        /\ Len(calls) = 1 /\ calls[1].n = req[r].n /\ calls[1].state = "failed"

(***************************************************************************)
(* Properties of the reply                                                 *)
(***************************************************************************)
Last(seq) == seq[Len(seq)]

IsPrefix(a, b) == Len(a) <= Len(b) /\ SubSeq(b, 1, Len(a)) = a

\* C13: a reply request is answered with success only in the step that
\* appends one message at the end of its chat's list; that message is the
\* assistant's, its content is the serialization of the result the engine
\* gave to this request, and the response carries that same result; no other
\* step of the request changes a chat.
C13_ReplyPersistence ==
    [][\A r \in Slots :
          (Stepped(r) /\ req[r].op = "ai" /\ req[r].pc # "done")
              => LET c == req[r].body.chatId
                     success == req'[r].pc = "done" /\ req'[r].res.status = 200
                 IN  /\ ~success => chats' = chats
                     /\ success =>
                          /\ Len(chats'[c].messages) = Len(chats[c].messages) + 1
                          /\ IsPrefix(chats[c].messages, chats'[c].messages)
                          /\ \A d \in 1..Len(chats) : d # c => chats'[d] = chats[d]
                          /\ \E i \in CallsOf(req[r].n) :
                               /\ calls[i].state = "ok"
                               /\ req'[r].res.analysis = calls[i].result
                               /\ messages'[Last(chats'[c].messages)] =
                                      [chat |-> c, sender |-> "chatbot",
                                       content |-> JsonStringify(calls[i].result),
                                       selectedDatasets |-> <<>>, tempFiles |-> <<>>]]_vars

C13_Witness ==
    \E r \in Slots :
        /\ Finished(r) /\ req[r].op = "ai" /\ req[r].res.status = 200
        /\ req[r].res.analysis = AnalysisErr
        /\ Len(chats[req[r].body.chatId].messages) = 2
        /\ messages[Last(chats[req[r].body.chatId].messages)].sender = "chatbot"
        /\ messages[Last(chats[req[r].body.chatId].messages)].content = JsonStringify(AnalysisErr)

\* The files of a message that still carry their content
Retained(msg) ==
    LET HasContent(f) == f.bufferBase64 # <<>>
    IN  SelectSeq(msg.tempFiles, HasContent)

\* The file part made of a stored file
PartOf(f) ==
    [filename |-> IF f.originalname = <<>> THEN <<"d", "a", "t", "a", "s", "e", "t", ".", "c", "s", "v">>
                  ELSE f.originalname,
     contentType |-> "text/csv",
     data |-> FromBase64(f.bufferBase64)]

PartsOf(files) == [i \in 1..Len(files) |-> PartOf(files[i])]

UserTurns(hist) == {i \in 1..Len(hist) : hist[i].sender = "user"}

\* The retained files of the most recent user message, none without one
LatestRetained(hist) ==
    IF UserTurns(hist) = {} THEN <<>>
    ELSE Retained(hist[CHOOSE i \in UserTurns(hist) : \A j \in UserTurns(hist) : j <= i])

\* The retained files of every user message, oldest message first
RECURSIVE EveryRetained(_)
EveryRetained(hist) ==
    IF hist = <<>> THEN <<>>
    ELSE EveryRetained(SubSeq(hist, 1, Len(hist) - 1))
         \o (IF Last(hist).sender = "user" THEN Retained(Last(hist)) ELSE <<>>)

\* C14: the file parts of a reply's outbound request are the
\* retained files of the most recent user message of the chat, and no file of
\* an older message.
C14_LatestFilesOnly ==
    \A r \in Slots :
        Posting(r) => req[r].form.files = PartsOf(LatestRetained(PostingHistory(r)))


(***************************************************************************)
(* Properties of the dispatch                                              *)
(***************************************************************************)
\* C15: the path of every outbound request ends with the analysis route,
\* once and not twice, whatever the configured base location is.
C15_EndpointNormalization ==
    \A i \in 1..Len(calls) :
        /\ EndsWith(calls[i].url.pathname, <<"/", "a", "n", "a", "l", "y", "z", "e">>)
        /\ ~EndsWith(calls[i].url.pathname,
                     <<"/", "a", "n", "a", "l", "y", "z", "e", "/", "a", "n", "a", "l", "y", "z", "e">>)

\* C16: when the engine answered a reply request with a status outside 2xx,
\* the response to the caller has that status, and not the generic message
\* when the engine gave a detail.
C16_UpstreamErrorTranslation ==
    \A r \in Slots : \A i \in CallsOf(req[r].n) :
        (Finished(r) /\ calls[i].state = "failed" /\ calls[i].failure.kind = "response")
            => /\ req[r].res.status = calls[i].failure.status
               /\ calls[i].failure.detail # <<>> => req[r].res.error # "Internal server error."

AnyAwaiting == \E r \in Slots : req[r].op = "ai" /\ req[r].pc = "post"

\* C17: a reply request whose outbound call is in flight is answered in the
\* end, whether the engine answers or not.
C17_BoundedDispatch == AnyAwaiting ~> ~AnyAwaiting

(***************************************************************************)
(* Properties of the message log                                           *)
(***************************************************************************)
\* C18: of two outbound requests for the same chat and project, the later
\* one lists every registry dataset the earlier one listed, whatever was
\* appended to the chat in between.
C18_DatasetAccumulation ==
    \A i, j \in 1..Len(calls) :
        (i < j /\ calls[i].chat = calls[j].chat /\ calls[i].project = calls[j].project)
            => \A e \in Range(RegistryEntries(calls[i].form)) :
                   e \in Range(RegistryEntries(calls[j].form))

C18_Witness ==
    /\ Len(calls) = 2 /\ calls[1].chat = calls[2].chat
    /\ Len(RegistryEntries(calls[1].form)) = 2
    /\ Len(chats[calls[2].chat].messages) = 8
    /\ messages[Last(chats[calls[2].chat].messages)].sender = "chatbot"
    /\ messages[Last(chats[calls[2].chat].messages)].selectedDatasets = <<>>
    /\ Len(RegistryEntries(calls[2].form)) = 2

\* C19: every step keeps each chat's message list as a prefix of its new
\* value and leaves every existing message as it is; chats and messages are
\* never removed.
C19_AppendOnlyLog ==
    [][/\ Len(chats') >= Len(chats)
       /\ \A c \in 1..Len(chats) : IsPrefix(chats[c].messages, chats'[c].messages)
       /\ Len(messages') >= Len(messages)
       /\ \A m \in 1..Len(messages) : messages'[m] = messages[m]]_vars

C19_Witness ==
    \E c \in 1..Len(chats) :
        /\ chats[c].title = <<"t">>
        /\ Len(chats[c].messages) >= 2
        /\ \E i \in 1..Len(chats[c].messages) : messages[chats[c].messages[i]].sender = "chatbot"

Count(seq, x) == Cardinality({i \in 1..Len(seq) : seq[i] = x})

\* C20: when the save of a submit or reply request is acknowledged, its
\* message is in the chat's list exactly once; an id that is in a list stays
\* in it, exactly once, whatever the other requests do.
C20_NoLostAppends ==
    [][/\ \A r \in Slots :
            (req[r].pc = "saveChat" /\ req'[r].pc = "done" /\ req'[r].res.status = 200)
                => Count(chats'[req[r].chat].messages, req[r].msg) = 1
       /\ \A c \in 1..Len(chats) : \A m \in Range(chats[c].messages) :
            Count(chats'[c].messages, m) = 1
       /\ \A c \in 1..Len(chats') : \A m \in Range(chats'[c].messages) :
            Count(chats'[c].messages, m) = 1]_vars

\* Two requests on one chat overlapped (the message created first was saved
\* last) and both messages are listed
C20_Witness ==
    \E c \in 1..Len(chats) : \E i, j \in 1..Len(chats[c].messages) :
        /\ i < j /\ chats[c].messages[i] > chats[c].messages[j]
        /\ \A r \in Slots : Finished(r) /\ req[r].res.status = 200
        /\ \E r \in Slots : req[r].op = "ai"
        /\ \E r \in Slots : req[r].op = "chat"

(***************************************************************************)
(* C21: renaming and reading a chat                                        *)
(***************************************************************************)
Blank(text) == \A i \in 1..Len(text) : text[i] = " "

Frames(op) == op \in {"rename", "history"}

\* C21: a step of a rename or of a history request appends no message,
\* creates no chat, registers none and calls no engine; a history request
\* changes no chat at all; a rename changes nothing but the title of the one
\* chat its (project id, chat id) pair names, to the trimmed title, which a
\* successful rename stores; a rename whose title trims to nothing is
\* answered 400 with every chat as it was.
C21_RenameHistoryFrame ==
    [][\A r \in Slots :
          (Stepped(r) /\ Frames(req'[r].op)) =>
              LET q == req'[r]
                  body == q.body
              IN  /\ messages' = messages /\ projChats' = projChats /\ calls' = calls
                  /\ Len(chats') = Len(chats)
                  /\ \A c \in 1..Len(chats) :
                        /\ chats'[c].messages = chats[c].messages
                        /\ chats'[c].project = chats[c].project
                        /\ chats'[c] # chats[c] =>
                              /\ q.op = "rename"
                              /\ c = body.chatId
                              /\ chats[c].project = body.projectId
                              /\ chats'[c].title = Trim(body.title)
                              /\ Head(chats'[c].title) # " " /\ Last(chats'[c].title) # " "
                  /\ (q.op = "rename" /\ q.pc = "done" /\ q.res.status = 200) =>
                        chats'[body.chatId].title = Trim(body.title)
                  /\ (q.op = "rename" /\ Blank(body.title)) =>
                        chats' = chats /\ q.pc = "done" /\ q.res.status = 400
      ]_vars

\* A rename given a padded title has succeeded and the chat bears the title
\* without the padding
C21_Witness ==
    \E r \in Slots :
        /\ Finished(r) /\ req[r].op = "rename" /\ req[r].res.status = 200
        /\ req[r].body.title = <<"t", " ">>
        /\ chats[req[r].body.chatId].title = <<"t">>
        /\ chats[req[r].body.chatId].messages # <<>>

(***************************************************************************)
(* C22: the order of turns                                                 *)
(***************************************************************************)
\* C22: in every chat's message list, each assistant message comes after at
\* least one user message of that list.
C22_TurnOrdering ==
    \A c \in 1..Len(chats) :
        \A i \in 1..Len(chats[c].messages) :
            messages[chats[c].messages[i]].sender = BotSender =>
                \E j \in 1..(i - 1) : messages[chats[c].messages[j]].sender = UserSender

(***************************************************************************)
(* C23: a reply stays within the caller's project                          *)
(***************************************************************************)
\* C23: a reply request works on (reads the history of, appends to) a chat
\* of the project it was authorized against only, and every call sent to the
\* engine carries the history of a chat of the project the call was
\* authorized for.
C23_ReplyConfinedToProject ==
    /\ \A r \in Slots :
          (req[r].op = "ai" /\ req[r].chat # 0) =>
              chats[req[r].chat].project = req[r].body.projectId
    /\ \A i \in 1..Len(calls) : chats[calls[i].chat].project = calls[i].project

(***************************************************************************)
(* C24, C25: what a persistence failure leaves behind                      *)
(***************************************************************************)
Quiescent == \A r \in Slots : req[r].pc \in {"idle", "done"}

Registered(c) == c \in Range(projChats[chats[c].project])

\* C24: every chat that exists for a project is listed in that project's
\* chat list.  Stated for the states in which no request is in progress, where
\* a creation that is atomic with its registration has either done both or
\* neither, also when the request ended with a persistence failure.
C24_ChatRegistrationAtomic == Quiescent => \A c \in 1..Len(chats) : Registered(c)

Listed(m) == m \in Range(chats[messages[m].chat].messages)

\* C25: whenever no request is in progress, every stored message that names
\* a chat is listed in that chat's message list, also when the request that
\* stored it ended with a persistence failure.
C25_NoOrphanMessages == Quiescent => \A m \in 1..Len(messages) : Listed(m)

(***************************************************************************)
(* C26, C27: the dataset list of a reply                                   *)
(***************************************************************************)
\* C26: the dataset list of a reply's outbound request ends with exactly
\* one "Current Upload" descriptor per file part of the request, in the order
\* of the file parts, each named as its file part and as the stored file it
\* was made of; everything before these descriptors is a registry entry.
C26_DescriptorsMatchFiles ==
    \A r \in Slots :
        Posting(r) =>
            LET datasets == req[r].form.context.datasets
                files == req[r].form.files
                kept == EveryRetained(PostingHistory(r))
                n == Len(datasets) - Len(files)
            IN  /\ n >= 0
                /\ Len(kept) = Len(files)
                /\ \A i \in 1..n : datasets[i].url # CurrentUpload
                /\ \A i \in 1..Len(files) :
                      /\ datasets[n + i].url = CurrentUpload
                      /\ datasets[n + i].name = files[i].filename
                      /\ datasets[n + i].name = kept[i].originalname

\* A reply is being sent with a registry entry followed by the descriptors
\* of two files of different messages
C26_Witness ==
    \E r \in Slots :
        /\ Posting(r)
        /\ Len(req[r].form.files) >= 2
        /\ Len(req[r].form.context.datasets) > Len(req[r].form.files)
        /\ req[r].form.files[1].filename # req[r].form.files[2].filename
        /\ Last(req[r].form.context.datasets).name = Last(req[r].form.files).filename

\* The selected identifiers of a history that name no dataset of the project
Unresolved(project, hist) ==
    {id \in Range(Selections(hist)) :
        \A i \in 1..Len(project.datasets) : String(project.datasets[i]._id) # id}

\* C27: a reply that passes its checks on a chat whose history selects an
\* identifier matching no dataset of the project goes on to the dispatch (it
\* ends early only when the storage layer fails, with nothing sent); every
\* registry entry it sends is a dataset of the request's project that the
\* history selected, and the unresolved identifiers add no entry.
C27_UnresolvableDropped ==
    [][\A r \in Slots :
          (/\ req[r].op = "ai" /\ req[r].pc = "loadChat" /\ Stepped(r)
           /\ ReplyPasses(req[r])
           /\ Unresolved(Projects[req[r].body.projectId],
                         Populate(chats[req[r].body.chatId].messages)) # {}) =>
              LET project == Projects[req[r].body.projectId]
                  hist == Populate(chats[req[r].body.chatId].messages)
                  reg == RegistryEntries(req'[r].form)
              IN  \/ /\ req'[r].pc = "post"
                     /\ \A i \in 1..Len(reg) :
                           \E j \in 1..Len(project.datasets) :
                               /\ reg[i] = [name |-> project.datasets[j].name,
                                            url |-> project.datasets[j].url]
                               /\ String(project.datasets[j]._id) \in Range(Selections(hist))
                     /\ Len(reg) = Cardinality(Range(Selections(hist)) \ Unresolved(project, hist))
                  \/ /\ scn.storageFails
                     /\ req'[r].pc = "done" /\ req'[r].res.status = 500
                     /\ calls' = calls
      ]_vars

\* A reply on a chat that selected a dataset of another project and one of
\* its own has been answered, having sent the entry of its own dataset only
C27_Witness ==
    \E r \in Slots :
        /\ Finished(r) /\ req[r].op = "ai" /\ req[r].res.status = 200
        /\ req[r].body.chatId \in 1..Len(chats)
        /\ D3 \in Range(Selections(Populate(chats[req[r].body.chatId].messages)))
        /\ \E i \in 1..Len(calls) :
              /\ calls[i].n = req[r].n
              /\ RegistryEntries(calls[i].form)
                    = << [name |-> Projects.p1.datasets[2].name, url |-> Projects.p1.datasets[2].url] >>

(***************************************************************************)
(* The browser client: ChatPage.handleSend and                             *)
(* UserDashboard.handleSendMessage.  An invocation of the send handler     *)
(* holds one connection: it posts the submit, awaits the answer and, when  *)
(* that is a success, posts the reply request on the same connection.      *)
(* The form has no busy flag: the handler runs again whenever the user     *)
(* submits the form, whatever the earlier invocations are awaiting.        *)
(***************************************************************************)
MaxReqUi == 4

AnalyzeThese == <<"A", "n", "a", "l", "y", "z", "e", " ", "t", "h", "e", "s", "e">>

\* The dataset selections the page keeps for a chat
UiSelections == {<<>>, <<D1>>}

\* JSON.stringify of a list of identifiers
JsonStringifyIds(ids) ==
    IF ids = <<D1>> THEN JsonD1 ELSE JsonEmpty

\* chatApi.sendUserMessage: the fields of the multipart form
SendUserMessage(projectId, chatId, content, files, selectedDatasetIds) ==
    [NoBody EXCEPT !.projectId = projectId, !.chatId = chatId, !.content = content,
                   !.files = files,
                   !.selectedDatasets = IF Len(selectedDatasetIds) > 0
                                        THEN Text(JsonStringifyIds(selectedDatasetIds))
                                        ELSE Missing]

\* chatApi.aiReply: the JSON body
AiReply(projectId, chatId, content) ==
    [NoBody EXCEPT !.projectId = projectId, !.chatId = chatId, !.content = content]

\* The invocation on connection r is over: it returned, or its catch block ran
HandlerOver(r) ==
    \/ req[r].pc = "idle"
    \/ req[r].pc = "done" /\ req[r].op = "ai"
    \/ req[r].pc = "done" /\ req[r].op = "chat" /\ req[r].res.status # 200

\* The submit request reaches chatHandler
PostChat(r, user, body) ==
    /\ req' = [req EXCEPT ![r] =
           IF ChatInvalid(body)
           THEN Done(Arrive(r, "chat", user, body),
                     Err(400, "projectId and at least one of content, selectedDatasets, or files are required."))
           ELSE Arrive(r, "chat", user, body)]
    /\ nreq' = nreq + 1
    /\ UNCHANGED <<chats, messages, projChats, calls, scn>>

\* ChatPage.handleSend up to the submit
HandleSend(r) ==
    /\ HandlerOver(r) /\ nreq + 2 <= scn.maxReq
    /\ \E user \in scn.users, selectedProjectId \in scn.projectIds \ {""},
          activeChat \in scn.chatIds \ {0}, input \in scn.contents,
          attachFiles \in scn.fileLists, selectedDatasetIds \in UiSelections :
         LET typed == Trim(input)
             hasFiles == Len(attachFiles) > 0
             hasSelection == Len(selectedDatasetIds) > 0
             currentText == IF typed # <<>> THEN typed ELSE AnalyzeThese
         IN  /\ ~(typed = <<>> /\ ~(hasSelection \/ hasFiles))
             /\ PostChat(r, user, SendUserMessage(selectedProjectId, activeChat, currentText,
                                                  attachFiles, selectedDatasetIds))

\* UserDashboard.handleSendMessage up to the submit
HandleSendMessage(r) ==
    /\ HandlerOver(r) /\ nreq + 2 <= scn.maxReq
    /\ \E user \in scn.users, selectedProjectId \in scn.projectIds \ {""},
          activeChat \in scn.chatIds \ {0}, input \in scn.contents,
          selectedDatasetIds \in UiSelections :
         /\ Trim(input) # <<>>
         /\ PostChat(r, user, SendUserMessage(selectedProjectId, activeChat, input,
                                              <<>>, selectedDatasetIds))

\* Both handlers after the submit resolved: the reply request, for the same
\* project, chat and text
HandleReply(r) ==
    /\ req[r].pc = "done" /\ req[r].op = "chat" /\ req[r].res.status = 200
    /\ LET body == AiReply(req[r].body.projectId, req[r].body.chatId, req[r].body.content)
           q == Arrive(r, "ai", req[r].user, body)
       IN  req' = [req EXCEPT ![r] =
               IF AiInvalid(body)
               THEN Done(q, Err(400, "projectId, chatId, and content required."))
               ELSE q]
    /\ nreq' = nreq + 1
    /\ UNCHANGED <<chats, messages, projChats, calls, scn>>

\* One signed-in member with one chat open, submitting while earlier turns
\* may still be awaited.
ScnUi ==
    [slots |-> {1, 2}, maxReq |-> MaxReqUi, storageFails |-> TRUE,
     users |-> {Member}, projectIds |-> {"p1"}, chatIds |-> {1},
     contents |-> {<<>>, <<"q", " ">>}, fileLists |-> {<<>>},
     dsInputs |-> {Missing},
     titles |-> {<<"t">>}, results |-> {AnalysisOk},
     fastApiUrl |-> <<>>, engineSilent |-> FALSE, failures |-> {NetworkDown}]

\* The chat the page has open exists, registered and without messages
InitUi ==
    /\ scn = ScnUi
    /\ chats = << NewChat("p1") >>
    /\ messages = <<>>
    /\ projChats = [p \in ProjectIds |-> IF p = "p1" THEN <<1>> ELSE <<>>]
    /\ calls = <<>>
    /\ req = [r \in ScnUi.slots |-> IdleReq]
    /\ nreq = 0

\* The requests are those of the page; the server handles them as ever
NextUi ==
    \E r \in Slots :
        \/ HandleSend(r) \/ HandleSendMessage(r) \/ HandleReply(r)
        \/ ChatLoadProject(r) \/ ChatFindChat(r) \/ ChatCreateMessage(r) \/ ChatSaveChat(r)
        \/ AiLoadProject(r) \/ AiLoadChat(r) \/ AiPostOk(r) \/ AiPostFail(r)
        \/ AiCreateMessage(r) \/ AiSaveChat(r)
        \/ PersistFail(r)

SpecUi == InitUi /\ [][NextUi]_vars

(***************************************************************************)
(* C28: the discipline of the client                                       *)
(***************************************************************************)
ReplyInFlight(r) == req[r].op = "ai" /\ req[r].pc \notin {"idle", "done"}

Submitted(q) ==
    \E i \in 1..Len(chats[q.body.chatId].messages) :
        LET m == messages[chats[q.body.chatId].messages[i]]
        IN  m.sender = UserSender /\ m.content = Trim(q.body.content)

\* C28: with the page as the only caller, no two reply requests for one
\* chat are in flight at the same time, and every reply request follows a
\* submit of the same text that succeeded: its user message is in the chat.
C28_ClientDiscipline ==
    /\ \A r1, r2 \in Slots :
          (r1 # r2 /\ ReplyInFlight(r1) /\ ReplyInFlight(r2)) =>
              req[r1].body.chatId # req[r2].body.chatId
    /\ \A r \in Slots : req[r].op = "ai" => Submitted(req[r])

(***************************************************************************)
(* C29: one response for every request                                     *)
(***************************************************************************)
InProgress(r) == req[r].pc \notin {"idle", "done"}

\* C29: a request that failed inside its handler is answered 500 with the
\* handler's fixed text and nothing else; a response, once sent, is not
\* replaced while the request lasts; and every request that has arrived is
\* answered in the end.
C29_ErrorPropagation ==
    /\ [](\A r \in Slots :
            (Finished(r) /\ req[r].res.status = 500) =>
                req[r].res = Err(500, CatchMessage(req[r].op)))
    /\ [][\A r \in Slots : (Finished(r) /\ Stepped(r)) => req'[r].n # req[r].n]_vars
    /\ ((\E r \in Slots : InProgress(r)) ~> (\A r \in Slots : ~InProgress(r)))

(***************************************************************************)
(* C30: parseSelectedDatasets on every kind of input                       *)
(***************************************************************************)
MaxReqParse == 2

\* One connection; the selectedDatasets field varies over every kind of text
\* a form can carry.
ScnParse ==
    [slots |-> {1}, maxReq |-> MaxReqParse, storageFails |-> TRUE,
     users |-> {Member}, projectIds |-> {"p1"}, chatIds |-> {0, 1},
     contents |-> {<<>>, Q}, fileLists |-> {<<>>},
     dsInputs |-> {Missing, Text(<<>>), Text(<<" ">>), Text(D1), Text(<<",">>),
                   Text(<<"d", "2", ",", " ", "d", "1">>), Text(JsonEmpty), Text(JsonD2D1),
                   Text(JsonStringD2), Text(JsonNull), Text(JsonSeven), Text(JsonObject),
                   Items(<<StrV(D1), StrV(D2)>>)},
     titles |-> {<<"t">>}, results |-> {AnalysisOk},
     fastApiUrl |-> <<>>, engineSilent |-> FALSE, failures |-> {NetworkDown}]

InitParse == EmptyStore(ScnParse)

SpecParse == InitParse /\ [][Next]_vars

IsNonEmptyString(x) == x.t = "string" /\ x.v # <<>>

\* C30: for every submit, the selection the handler parsed out of the
\* request's selectedDatasets field is a list of non-empty strings: empty for
\* a missing or empty field, the elements for a JSON-array text, the trimmed
\* non-empty pieces for a comma-separated text.
C30_SelectionParsing ==
    \A r \in Slots :
        req[r].op = "chat" =>
            LET input == req[r].body.selectedDatasets
                out == parseSelectedDatasets(input)
            IN  /\ \A i \in 1..Len(out) : IsNonEmptyString(out[i])
                /\ (input = Missing \/ input = Text(<<>>)) => out = <<>>
                /\ input = Text(JsonD2D1) => out = <<StrV(D2), StrV(D1)>>
                /\ input = Text(<<"d", "2", ",", " ", "d", "1">>) => out = <<StrV(D2), StrV(D1)>>
                /\ input = Text(<<",">>) => out = <<>>
====
